---- MODULE Spec2Model ----
(***************************************************************************)
(* ClipAnim Creator: the editor session (App, src/types.ts), the canvas    *)
(* pointer machine (CanvasArea, src/unnamed/part_001) and the drawing      *)
(* utilities (drawingUtils, src/unnamed/part_000) as a state machine.      *)
(*                                                                         *)
(* Conventions                                                             *)
(*  - An image (a data URL in the code) is a record [w, h, px]: px maps     *)
(*    <<x, y>> to a colour, 0 being the transparent pixel.  PNG encoding    *)
(*    and decoding are lossless, so toDataURL followed by Image.onload      *)
(*    gives back the same pixels.                                          *)
(*  - An optional value (T | null) is a sequence of length 0 or 1.         *)
(*  - Sequence positions are 1-based; historyIndex and currentFrameIndex   *)
(*    keep the code's 0-based values.                                      *)
(*  - Specifications named Spec* without "Async" let every awaited decode  *)
(*    or composite resolve before the next event is handled.                *)
(***************************************************************************)
EXTENDS Integers, Sequences, FiniteSets, TLC

(* ------------------------------ bounds -------------------------------- *)
\* canvasSize of the project under edit (App keeps it in state; 800 x 600 by default)
CanvasW == 7
CanvasH == 7
\* history pushes explored in Spec
MaxEdits == 3
\* timeline length and layer count explored in Spec
MaxFrames == 2
MaxLayers == 2
\* pointer presses explored
MaxPresses == 3

(* ------------------------- program constants -------------------------- *)
HistoryCap == 20
MinSelectionSize == 5

(* ------------------------------ values -------------------------------- *)
Null == <<>>
Some(v) == <<v>>
IsNull(o) == o = <<>>
Val(o) == o[1]

Abs(n) == IF n < 0 THEN -n ELSE n
Min(a, b) == IF a < b THEN a ELSE b
Max(a, b) == IF a < b THEN b ELSE a

Tools == {"pen", "eraser", "select", "shape", "text"}

\* the colour picker's current colour and the colours of stored drawings
InkColor == CanvasW * CanvasH + 1

PixOf(w, h) == (0 .. w - 1) \X (0 .. h - 1)

\* document.createElement('canvas') with width and height set: all transparent
NewCanvas(w, h) == [w |-> w, h |-> h, px |-> [p \in PixOf(w, h) |-> 0]]

\* '' as an image source: nothing to draw
EmptyUrl == [w |-> 0, h |-> 0, px |-> [p \in PixOf(0, 0) |-> 0]]

PixelAt(img, x, y) ==
    IF x >= 0 /\ x < img.w /\ y >= 0 /\ y < img.h THEN img.px[<<x, y>>] ELSE 0

\* ctx.drawImage(img, ox, oy) with source-over compositing of opaque pixels
DrawImage(dst, img, ox, oy) ==
    [dst EXCEPT !.px = [p \in PixOf(dst.w, dst.h) |->
        LET c == PixelAt(img, p[1] - ox, p[2] - oy)
        IN IF c # 0 THEN c ELSE dst.px[p]]]

\* ctx.getImageData(left, top, w, h) put into a fresh w x h canvas
GetImageData(cv, left, top, w, h) ==
    [w |-> w, h |-> h,
     px |-> [p \in PixOf(w, h) |-> PixelAt(cv, left + p[1], top + p[2])]]

\* ctx.clearRect(left, top, w, h)
ClearRect(cv, left, top, w, h) ==
    [cv EXCEPT !.px = [p \in PixOf(cv.w, cv.h) |->
        IF /\ p[1] >= left /\ p[1] < left + w
           /\ p[2] >= top /\ p[2] < top + h
        THEN 0 ELSE cv.px[p]]]

\* ctx.lineTo + ctx.stroke between two path vertices: the pixels of the segment
\* (one pixel wide); "destination-out" erases them instead of inking them
Segment(a, b) ==
    LET n == Max(Abs(b[1] - a[1]), Abs(b[2] - a[2]))
    IN IF n = 0 THEN {a}
       ELSE {<<a[1] + ((2 * t * (b[1] - a[1]) + n) \div (2 * n)),
               a[2] + ((2 * t * (b[2] - a[2]) + n) \div (2 * n))>> : t \in 0 .. n}

Stroke(cv, pts, ink, op) ==
    [cv EXCEPT !.px = [p \in PixOf(cv.w, cv.h) |->
        IF p \in pts THEN (IF op = "destination-out" THEN 0 ELSE ink)
        ELSE cv.px[p]]]

\* ctx.rect(startX, startY, w, h) + ctx.stroke(): the outline of the rectangle
RectOutline(a, b) ==
    LET x0 == Min(a[1], b[1])
        x1 == Max(a[1], b[1])
        y0 == Min(a[2], b[2])
        y1 == Max(a[2], b[2])
    IN {<<x, y>> \in (x0 .. x1) \X (y0 .. y1) : x \in {x0, x1} \/ y \in {y0, y1}}

(* --------------------------- drawingUtils ----------------------------- *)
RECURSIVE DrawLayers(_, _, _, _)
DrawLayers(cv, frame, ls, i) ==
    IF i > Len(ls) THEN cv
    ELSE DrawLayers(
            IF ls[i].isVisible /\ ls[i].id \in DOMAIN frame.layers
            THEN DrawImage(cv, frame.layers[ls[i].id], 0, 0)
            ELSE cv,
            frame, ls, i + 1)

\* compositeLayers(frame, layers, width, height, 'transparent', null)
compositeLayers(frame, ls, width, height) ==
    DrawLayers(NewCanvas(width, height), frame, ls, 1)

\* The canvas pixel (px, py), taken at its centre, in the selection's local frame:
\* the inverse of translate(cx, cy) rotate(rotation) scale(scaleX, scaleY), in
\* half-pixel units measured from the selection's centre.
LocalOf(sel, px, py) ==
    LET dx == 2 * px + 1 - (2 * sel.x + sel.width)
        dy == 2 * py + 1 - (2 * sel.y + sel.height)
        r == sel.rotation
        lx == CASE r = 0 -> dx [] r = 90 -> dy [] r = 180 -> -dx [] r = 270 -> -dy
        ly == CASE r = 0 -> dy [] r = 90 -> -dx [] r = 180 -> -dy [] r = 270 -> dx
    IN <<lx * sel.scaleX, ly * sel.scaleY>>

\* drawSelectionOntoCanvas: the image stretched over width x height around the
\* selection's centre, rotated and flipped, source-over
drawSelectionOntoCanvas(cv, sel) ==
    [cv EXCEPT !.px = [p \in PixOf(cv.w, cv.h) |->
        LET l == LocalOf(sel, p[1], p[2])
            ux == l[1] + sel.width
            uy == l[2] + sel.height
            c == IF /\ ux >= 0 /\ ux < 2 * sel.width
                    /\ uy >= 0 /\ uy < 2 * sel.height
                 THEN PixelAt(sel.dataUrl,
                              (ux * sel.dataUrl.w) \div (2 * sel.width),
                              (uy * sel.dataUrl.h) \div (2 * sel.height))
                 ELSE 0
        IN IF c # 0 THEN c ELSE cv.px[p]]]

\* The 2D context's current path: the pixels a stroke() of it covers, the start of
\* its last subpath and its current point.
EmptyPath == [pix |-> {}, start |-> Null, end |-> Null]

\* ctx.beginPath(); ctx.moveTo(p)
MoveTo(p) == [pix |-> {}, start |-> Some(p), end |-> Some(p)]

\* ctx.lineTo(p): with no current point it only sets one
LineTo(pa, p) ==
    IF IsNull(pa.end) THEN [pa EXCEPT !.start = Some(p), !.end = Some(p)]
    ELSE [pa EXCEPT !.pix = @ \cup Segment(Val(pa.end), p), !.end = Some(p)]

\* ctx.beginPath(); ctx.rect(a.x, a.y, b.x - a.x, b.y - a.y)
RectPath(a, b) == [pix |-> RectOutline(a, b), start |-> Some(a), end |-> Some(a)]

\* ctx.closePath(): a line back to the start of the subpath
ClosePath(pa) ==
    IF IsNull(pa.end) \/ IsNull(pa.start) THEN pa
    ELSE [pa EXCEPT !.pix = @ \cup Segment(Val(pa.end), Val(pa.start)),
                    !.end = pa.start]

\* ctx.stroke() of the current path
StrokePath(cv, pa, ink, op) == Stroke(cv, pa.pix \cap PixOf(cv.w, cv.h), ink, op)

(* ------------------------------- state -------------------------------- *)
VARIABLES
    \* App (src/types.ts)
    view, layers, activeLayerId, frames, history, historyIndex,
    currentFrameIndex, isPlaying, tool, selection, nextId, edits, clipboard,
    \* CanvasArea (src/unnamed/part_001)
    canvas, gco, path, pointers, isGesture, isDrawing, hasMoved, drawStart,
    canvasSnapshot, dragStart, initialSelection, selectionMode,
    latestSelectionState, textInput,
    \* pointer presses handled so far (bounds the exploration)
    presses,
    \* the pointers that are down: a button held or a contact touching
    pressed,
    \* floodFill (src/unnamed/part_000): the call's arguments and its locals
    fillCall, fillData, fillTarget, fillQueue, fillIterations, fillScan, fillPc,
    \* compositeLayers (src/unnamed/part_000): the call's arguments, its place, the
    \* layer its loop is at, the images that have a src and have not fired yet, its
    \* canvas, the draws and the resolutions so far in order, and what it returned
    compCall, compPc, compIndex, compPending, compCanvas, compDrawn, compResolved,
    compResult,
    \* the viewport refs of CanvasArea (src/unnamed/part_001, lines 706-711) with the
    \* client positions of the pointer table and the gesture flag they are read
    \* with; viewEvents counts the wheel and pointer events handled on them
    transform, initialPinchDistance, lastPanPoint, clientPointers, panGesture,
    viewEvents,
    \* handleExport (src/types.ts): App's isExporting, exportProgress, exportFormat
    \* and audioTracks (their number), the call's place and what it captured, its
    \* off-screen canvas, audio context and recorder, its loop indices, the number
    \* of calls and of files downloaded
    isExporting, exportProgress, exportFormat, audioTracks, exportPc, exportCall,
    exportCanvas, audioContext, recorder, exportIndex, exportTrack, exports,
    downloads,
    \* saveProject (src/types.ts): App's projectId and savedProjects, localStorage,
    \* the call's place and what it captured, the number of calls
    projectId, savedProjects, storage, savePc, saveCall, saveCalls,
    \* the messages shown with alert(), oldest first
    alerts,
    \* the calls of App's async handlers that are suspended at an await, each with
    \* the state its closure captured; the number of calls made; the layer updates
    \* handed to handleUpdateLayer so far, oldest first
    pendingOps, opCount, issued

appVars == <<view, layers, activeLayerId, frames, history, historyIndex,
             currentFrameIndex, isPlaying, tool, selection, nextId, edits,
             clipboard>>
ctxVars == <<canvas, gco, path>>
fillVars == <<fillCall, fillData, fillTarget, fillQueue, fillIterations,
              fillScan, fillPc>>
compVars == <<compCall, compPc, compIndex, compPending, compCanvas, compDrawn,
              compResolved, compResult>>
viewVars == <<transform, initialPinchDistance, lastPanPoint, clientPointers,
              panGesture, viewEvents>>
exportVars == <<isExporting, exportProgress, exportFormat, audioTracks, exportPc,
                exportCall, exportCanvas, audioContext, recorder, exportIndex,
                exportTrack, exports, downloads>>
saveVars == <<projectId, savedProjects, storage, savePc, saveCall, saveCalls>>
asyncVars == <<pendingOps, opCount, issued>>
ioVars == <<viewVars, exportVars, saveVars, alerts, asyncVars>>
utilVars == <<fillVars, compVars, ioVars>>
refVars == <<pointers, isGesture, isDrawing, hasMoved, drawStart, canvasSnapshot,
             dragStart, initialSelection, selectionMode, latestSelectionState,
             textInput, presses, pressed, utilVars>>
vars == <<appVars, ctxVars, refVars>>

\* createDefaultLayer(id, name)
createDefaultLayer(id) == [id |-> id, isVisible |-> TRUE, isLocked |-> FALSE]

LayerIds(ls) == {ls[i].id : i \in DOMAIN ls}

\* createBlankFrame(layers, width, height, id).  A frame's rev stands for the
\* identity of its layers object, which the canvas effect compares: it is the
\* number of the edit that built the object.
createBlankFrame(ls, width, height, id, rev) ==
    [id |-> id,
     layers |-> [l \in LayerIds(ls) |-> NewCanvas(width, height)],
     rev |-> rev,
     thumbnailUrl |-> EmptyUrl]

\* layers.find(l => l.id === activeLayerId), as an optional value
FindLayer(ls, id) ==
    IF \E i \in DOMAIN ls : ls[i].id = id
    THEN Some(ls[CHOOSE i \in DOMAIN ls : ls[i].id = id /\ \A j \in DOMAIN ls : ls[j].id = id => i <= j])
    ELSE Null

(* ------------------------- App: frames, history ----------------------- *)
\* an updateFramesWithHistory that never drops the oldest snapshot
updateFramesUncapped(hist, idx, newFrames) ==
    LET newHistory == Append(SubSeq(hist, 1, idx + 1), newFrames)
    IN [frames |-> newFrames, history |-> newHistory,
        historyIndex |-> Len(newHistory) - 1]

\* an updateFramesWithHistory that keeps the redo branch
updateFramesUnsliced(hist, idx, newFrames) ==
    LET pushed == Append(hist, newFrames)
        newHistory == IF Len(pushed) > HistoryCap THEN Tail(pushed) ELSE pushed
    IN [frames |-> newFrames, history |-> newHistory,
        historyIndex |-> Len(newHistory) - 1]

\* an updateFramesWithHistory that steps the index without regard to the shift
updateFramesIndexStepped(hist, idx, newFrames) ==
    LET pushed == Append(SubSeq(hist, 1, idx + 1), newFrames)
        newHistory == IF Len(pushed) > HistoryCap THEN Tail(pushed) ELSE pushed
    IN [frames |-> newFrames, history |-> newHistory, historyIndex |-> idx + 1]

\* updateFramesWithHistory(newFrames): the frames, history and historyIndex it sets
updateFramesWithHistory(hist, idx, newFrames) ==
    LET pushed == Append(SubSeq(hist, 1, idx + 1), newFrames)
        newHistory == IF Len(pushed) > HistoryCap THEN Tail(pushed) ELSE pushed
    IN [frames |-> newFrames, history |-> newHistory,
        historyIndex |-> Len(newHistory) - 1]

\* {...layers, [layerId]: dataUrl}
WithLayer(m, layerId, dataUrl) ==
    [k \in DOMAIN m \cup {layerId} |-> IF k = layerId THEN dataUrl ELSE m[k]]

\* handleUpdateLayer(layerId, dataUrl)
handleUpdateLayer(fs, cfi, ls, hist, idx, layerId, dataUrl, rev) ==
    LET withData == [fs[cfi + 1] EXCEPT !.layers = WithLayer(@, layerId, dataUrl),
                                        !.rev = rev]
        currentFrame == [withData EXCEPT
            !.thumbnailUrl = compositeLayers(withData, ls, CanvasW, CanvasH)]
    IN updateFramesWithHistory(hist, idx, [fs EXCEPT ![cfi + 1] = currentFrame])

\* regenerateThumbnails(frames, layers): the frames it sets
regenerateThumbnails(fs, ls) ==
    [i \in DOMAIN fs |->
        [fs[i] EXCEPT !.thumbnailUrl = compositeLayers(fs[i], ls, CanvasW, CanvasH)]]

\* handleSelectionCommit: the base layer with the transformed selection drawn on it,
\* saved through handleUpdateLayer
handleSelectionCommit(fs, cfi, ls, hist, idx, aid, sel, rev) ==
    LET tempCanvas == NewCanvas(CanvasW, CanvasH)
        withBase == IF aid \in DOMAIN fs[cfi + 1].layers
                    THEN DrawImage(tempCanvas, fs[cfi + 1].layers[aid], 0, 0)
                    ELSE tempCanvas
    IN handleUpdateLayer(fs, cfi, ls, hist, idx, aid,
                         drawSelectionOntoCanvas(withBase, sel), rev)

\* splice(at, 0, item): a start beyond the end is taken as the length
InsertAt(seq, at, item) ==
    LET start == IF at > Len(seq) THEN Len(seq) ELSE at
    IN SubSeq(seq, 1, start) \o <<item>> \o SubSeq(seq, start + 1, Len(seq))

\* filter((_, i) => i !== index)
RemoveAt(seq, index) ==
    SubSeq(seq, 1, index) \o SubSeq(seq, index + 2, Len(seq))

ApplyUpdate(u) ==
    /\ frames' = u.frames
    /\ history' = u.history
    /\ historyIndex' = u.historyIndex
    /\ edits' = edits + 1

(* ---------------------- CanvasArea: active canvas --------------------- *)
HasCurrentFrame(fs, cfi) == cfi >= 0 /\ cfi < Len(fs)

\* the <canvas> element exists: the editor is shown, a frame is current and the
\* active layer is found and visible
CanvasMounted(v, fs, cfi, ls, aid) ==
    /\ v = "editor"
    /\ HasCurrentFrame(fs, cfi)
    /\ IF IsNull(FindLayer(ls, aid)) THEN FALSE
       ELSE Val(FindLayer(ls, aid)).isVisible

\* currentFrame.layers[activeLayerId]
StoredLayer(fs, cfi, aid) ==
    IF HasCurrentFrame(fs, cfi) /\ aid \in DOMAIN fs[cfi + 1].layers
    THEN fs[cfi + 1].layers[aid]
    ELSE EmptyUrl

\* the dependencies of the effect that redraws the active canvas
EffectDeps ==
    IF HasCurrentFrame(frames, currentFrameIndex)
    THEN <<frames[currentFrameIndex + 1].id, activeLayerId,
           frames[currentFrameIndex + 1].rev>>
    ELSE <<-1, activeLayerId, -1>>

\* The active canvas after a handler has run and React has rendered: cv, op and
\* pe are the canvas, its globalCompositeOperation and its path as the handler left
\* them.
\* A re-mounted element is blank with a fresh context; the effect clears the
\* canvas and draws the stored bitmap with the context's current operation.
AfterRender(cv, op, pe) ==
    LET was == CanvasMounted(view, frames, currentFrameIndex, layers, activeLayerId)
        is == CanvasMounted(view', frames', currentFrameIndex', layers',
                            activeLayerId')
        rerun == view' # view \/ EffectDeps' # EffectDeps
        op1 == IF was THEN op ELSE "source-over"
        blank == NewCanvas(CanvasW, CanvasH)
        stored == StoredLayer(frames', currentFrameIndex', activeLayerId')
    IN IF ~is THEN [canvas |-> Null, gco |-> "source-over", path |-> EmptyPath]
       ELSE IF rerun
       THEN [canvas |-> Some(IF op1 = "destination-out" THEN blank
                             ELSE DrawImage(blank, stored, 0, 0)),
             gco |-> op1, path |-> IF was THEN pe ELSE EmptyPath]
       ELSE IF ~was
       THEN [canvas |-> Some(blank), gco |-> "source-over", path |-> EmptyPath]
       ELSE [canvas |-> cv, gco |-> op, path |-> pe]

Render(cv, op, pe) ==
    LET r == AfterRender(cv, op, pe)
    IN /\ canvas' = r.canvas
       /\ gco' = r.gco
       /\ path' = r.path

\* no floodFill call is running
FillIdle ==
    /\ fillPc = "idle"
    /\ fillCall = Null
    /\ fillData = Null
    /\ fillTarget = Null
    /\ fillQueue = <<>>
    /\ fillIterations = 0
    /\ fillScan = 0

\* no compositeLayers call is running
CompIdle ==
    /\ compPc = "idle"
    /\ compCall = Null
    /\ compIndex = 0
    /\ compPending = {}
    /\ compCanvas = Null
    /\ compDrawn = <<>>
    /\ compResolved = <<>>
    /\ compResult = Null

\* transform.current.scale is kept in thousandths (1000 is the scale 1), products
\* and quotients rounded down; client positions lie on one horizontal line, so
\* that Math.hypot gives the absolute difference of the x coordinates
ScaleUnit == 1000
MinScale == ScaleUnit \div 10
MaxScale == 10 * ScaleUnit

\* the refs of a freshly mounted CanvasArea: transform = {scale: 1, x: 0, y: 0}
ViewInit ==
    /\ transform = [scale |-> ScaleUnit, x |-> 0]
    /\ initialPinchDistance = Null
    /\ lastPanPoint = Null
    /\ clientPointers = <<>>
    /\ panGesture = FALSE
    /\ viewEvents = 0

\* no handleExport call is running; App starts with no audio track
ExportIdle ==
    /\ isExporting = FALSE
    /\ exportProgress = 0
    /\ exportFormat = "MP4"
    /\ audioTracks = 0
    /\ exportPc = "idle"
    /\ exportCall = Null
    /\ exportCanvas = "none"
    /\ audioContext = "none"
    /\ recorder = "none"
    /\ exportIndex = 0
    /\ exportTrack = 0
    /\ exports = 0
    /\ downloads = 0

\* no async handler of App is suspended and none has been called
AsyncIdle ==
    /\ pendingOps = {}
    /\ opCount = 0
    /\ issued = <<>>

\* no saveProject call is running; localStorage holds no project and no index
SaveIdle ==
    /\ projectId = 1
    /\ savedProjects = <<>>
    /\ storage = [projects |-> <<>>, meta |-> Null]
    /\ savePc = "idle"
    /\ saveCall = Null
    /\ saveCalls = 0

\* the refs of a freshly mounted CanvasArea
RefsInit ==
    /\ pointers = {}
    /\ isGesture = FALSE
    /\ isDrawing = FALSE
    /\ hasMoved = FALSE
    /\ drawStart = Null
    /\ canvasSnapshot = Null
    /\ dragStart = Null
    /\ initialSelection = Null
    /\ selectionMode = "null"
    /\ latestSelectionState = Null
    /\ textInput = Null
    /\ presses = 0
    /\ pressed = {}

\* CanvasArea is unmounted with the editor view: its refs are gone
ResetRefs ==
    /\ pointers' = {}
    /\ isGesture' = FALSE
    /\ isDrawing' = FALSE
    /\ hasMoved' = FALSE
    /\ drawStart' = Null
    /\ canvasSnapshot' = Null
    /\ dragStart' = Null
    /\ initialSelection' = Null
    /\ selectionMode' = "null"
    /\ latestSelectionState' = Null
    /\ textInput' = Null
    /\ UNCHANGED <<presses, pressed, utilVars>>

(* --------------------------- App: handlers ---------------------------- *)
\* a project saved by an earlier session (localStorage): one layer, one frame whose
\* pixels all differ
PatternImage ==
    [w |-> CanvasW, h |-> CanvasH,
     px |-> [p \in PixOf(CanvasW, CanvasH) |-> 1 + p[1] + CanvasW * p[2]]]

SavedProjects ==
    LET ls == <<createDefaultLayer(1)>>
        f == [id |-> 0, layers |-> [l \in {1} |-> PatternImage], rev |-> 0,
              thumbnailUrl |-> PatternImage]
    IN {[layers |-> ls, frames |-> <<f>>]}

\* createNewProject, the initial composite resolved
CreateNewProject ==
    /\ view = "menu"
    /\ LET defaultL == <<createDefaultLayer(1)>>
           blankF == createBlankFrame(defaultL, CanvasW, CanvasH, nextId, edits + 1)
           initialFrame == [blankF EXCEPT
               !.thumbnailUrl = compositeLayers(blankF, defaultL, CanvasW, CanvasH)]
       IN /\ layers' = defaultL
          /\ frames' = <<initialFrame>>
          /\ history' = <<(<<initialFrame>>)>>
    /\ historyIndex' = 0
    /\ nextId' = nextId + 1
    /\ UNCHANGED clipboard
    /\ currentFrameIndex' = 0
    /\ selection' = Null
    /\ view' = "editor"
    /\ edits' = edits + 1
    /\ UNCHANGED <<activeLayerId, isPlaying, tool, refVars>>
    /\ Render(canvas, gco, path)

\* loadProject(id)
LoadProject(data) ==
    /\ view = "menu"
    /\ layers' = data.layers
    /\ frames' = data.frames
    /\ currentFrameIndex' = 0
    /\ history' = <<data.frames>>
    /\ historyIndex' = 0
    /\ selection' = Null
    /\ tool' = "pen"
    /\ view' = "editor"
    /\ UNCHANGED <<activeLayerId, isPlaying, nextId, clipboard, edits, refVars>>
    /\ Render(canvas, gco, path)

\* the header's Home button: setView('menu')
BackToMenu ==
    /\ view = "editor"
    /\ view' = "menu"
    /\ UNCHANGED <<layers, activeLayerId, frames, history, historyIndex,
                   currentFrameIndex, isPlaying, tool, selection, nextId, clipboard, edits>>
    /\ ResetRefs
    /\ Render(canvas, gco, path)

\* setTool(t): the toolbar's onSelectTool and the keyboard shortcuts b, e, s, u
SetTool(t) ==
    /\ view = "editor"
    /\ t # tool
    /\ tool' = t
    /\ UNCHANGED <<view, layers, activeLayerId, frames, history, historyIndex,
                   currentFrameIndex, isPlaying, selection, nextId, clipboard, edits>>
    /\ UNCHANGED <<ctxVars, refVars>>

\* handleSelectFrame(index): a timeline click or an arrow key
HandleSelectFrame(index) ==
    /\ view = "editor"
    /\ index \in 0 .. Len(frames) - 1
    /\ index # currentFrameIndex
    /\ currentFrameIndex' = index
    /\ UNCHANGED <<view, layers, activeLayerId, frames, history, historyIndex,
                   isPlaying, tool, selection, nextId, clipboard, edits, refVars>>
    /\ Render(canvas, gco, path)

\* the play button and the space key
TogglePlay ==
    /\ view = "editor"
    /\ isPlaying' = ~isPlaying
    /\ UNCHANGED <<view, layers, activeLayerId, frames, history, historyIndex,
                   currentFrameIndex, tool, selection, nextId, clipboard, edits>>
    /\ UNCHANGED <<ctxVars, refVars>>

\* animate(time) once the frame interval has passed, no audio track playing
AnimateTick ==
    /\ view = "editor"
    /\ isPlaying
    /\ Len(frames) > 0
    /\ currentFrameIndex' = (currentFrameIndex + 1) % Len(frames)
    /\ UNCHANGED <<view, layers, activeLayerId, frames, history, historyIndex,
                   isPlaying, tool, selection, nextId, clipboard, edits, refVars>>
    /\ Render(canvas, gco, path)

\* handleDeleteSelection: the Delete key and the header's trash button
HandleDeleteSelection ==
    /\ view = "editor"
    /\ ~IsNull(selection)
    /\ selection' = Null
    /\ UNCHANGED <<view, layers, activeLayerId, frames, history, historyIndex,
                   currentFrameIndex, isPlaying, tool, nextId, clipboard, edits>>
    /\ UNCHANGED <<ctxVars, refVars>>

\* addLayer
AddLayer ==
    /\ view = "editor"
    /\ LET newId == nextId
           newLayers == Append(layers, createDefaultLayer(newId))
           newFrames == [i \in DOMAIN frames |->
               [frames[i] EXCEPT
                   !.layers = WithLayer(@, newId, NewCanvas(CanvasW, CanvasH)),
                   !.rev = edits + 1]]
       IN /\ layers' = newLayers
          /\ activeLayerId' = newId
          /\ ApplyUpdate(updateFramesWithHistory(history, historyIndex, newFrames))
    /\ nextId' = nextId + 1
    /\ UNCHANGED clipboard
    /\ UNCHANGED <<view, currentFrameIndex, isPlaying, tool, selection, refVars>>
    /\ Render(canvas, gco, path)

\* a guard that is off by one: layers.length < 1
LastLayerGuardOffByOne(ls) == Len(ls) < 1

\* removeLayer's guard: layers.length <= 1
LastLayerGuard(ls) == Len(ls) <= 1

\* removeLayer(id).  Were the filtered list empty, reading the id of its last
\* element would raise after setLayers, before the thumbnails are regenerated.
RemoveLayer(id) ==
    /\ view = "editor"
    /\ id \in LayerIds(layers)
    /\ IF LastLayerGuard(layers)
       THEN UNCHANGED vars
       ELSE LET newLayers == SelectSeq(layers, LAMBDA l : l.id # id)
                raises == activeLayerId = id /\ newLayers = <<>>
            IN /\ layers' = newLayers
               /\ activeLayerId' = IF activeLayerId = id /\ ~raises
                                   THEN newLayers[Len(newLayers)].id
                                   ELSE activeLayerId
               /\ frames' = IF raises THEN frames
                            ELSE regenerateThumbnails(frames, newLayers)
               /\ UNCHANGED <<view, history, historyIndex, currentFrameIndex,
                              isPlaying, tool, selection, nextId, clipboard, edits, refVars>>
               /\ Render(canvas, gco, path)

\* the layer panel's onSelectLayer: setActiveLayerId(id)
SelectLayer(id) ==
    /\ view = "editor"
    /\ id \in LayerIds(layers)
    /\ id # activeLayerId
    /\ activeLayerId' = id
    /\ UNCHANGED <<view, layers, frames, history, historyIndex, currentFrameIndex,
                   isPlaying, tool, selection, nextId, clipboard, edits, refVars>>
    /\ Render(canvas, gco, path)

\* toggleLayerVisibility(id)
ToggleLayerVisibility(id) ==
    /\ view = "editor"
    /\ id \in LayerIds(layers)
    /\ LET newLayers == [i \in DOMAIN layers |->
               IF layers[i].id = id
               THEN [layers[i] EXCEPT !.isVisible = ~@]
               ELSE layers[i]]
       IN /\ layers' = newLayers
          /\ frames' = regenerateThumbnails(frames, newLayers)
    /\ UNCHANGED <<view, activeLayerId, history, historyIndex, currentFrameIndex,
                   isPlaying, tool, selection, nextId, clipboard, edits, refVars>>
    /\ Render(canvas, gco, path)

\* toggleLayerLock(id)
ToggleLayerLock(id) ==
    /\ view = "editor"
    /\ id \in LayerIds(layers)
    /\ layers' = [i \in DOMAIN layers |->
           IF layers[i].id = id
           THEN [layers[i] EXCEPT !.isLocked = ~@]
           ELSE layers[i]]
    /\ UNCHANGED <<view, activeLayerId, frames, history, historyIndex,
                   currentFrameIndex, isPlaying, tool, selection, nextId, clipboard, edits>>
    /\ UNCHANGED <<ctxVars, refVars>>

\* the index undo and redo clamp currentFrameIndex to
ClampIndex(cfi, newFrames) ==
    IF cfi >= Len(newFrames) THEN Max(0, Len(newFrames) - 1) ELSE cfi

\* undo's guard: historyIndex > 0
CanUndo(hist, idx) == idx > 0

\* undo
Undo ==
    /\ view = "editor"
    /\ IF CanUndo(history, historyIndex)
       THEN /\ historyIndex' = historyIndex - 1
            /\ frames' = history[historyIndex]
            /\ currentFrameIndex' = ClampIndex(currentFrameIndex, frames')
            /\ UNCHANGED <<view, layers, activeLayerId, history, isPlaying, tool,
                           selection, nextId, clipboard, edits, refVars>>
            /\ Render(canvas, gco, path)
       ELSE UNCHANGED vars

\* redo's guard: historyIndex < history.length - 1
CanRedo(hist, idx) == idx < Len(hist) - 1

\* redo
Redo ==
    /\ view = "editor"
    /\ IF CanRedo(history, historyIndex)
       THEN /\ historyIndex' = historyIndex + 1
            /\ frames' = history[historyIndex + 2]
            /\ currentFrameIndex' = ClampIndex(currentFrameIndex, frames')
            /\ UNCHANGED <<view, layers, activeLayerId, history, isPlaying, tool,
                           selection, nextId, clipboard, edits, refVars>>
            /\ Render(canvas, gco, path)
       ELSE UNCHANGED vars

\* addFrame, the thumbnail composite resolved
AddFrame ==
    /\ view = "editor"
    /\ LET blankF == createBlankFrame(layers, CanvasW, CanvasH, nextId, edits + 1)
           newFrame == [blankF EXCEPT
               !.thumbnailUrl = compositeLayers(blankF, layers, CanvasW, CanvasH)]
       IN ApplyUpdate(updateFramesWithHistory(history, historyIndex,
               InsertAt(frames, currentFrameIndex + 1, newFrame)))
    /\ currentFrameIndex' = currentFrameIndex + 1
    /\ nextId' = nextId + 1
    /\ UNCHANGED clipboard
    /\ UNCHANGED <<view, layers, activeLayerId, isPlaying, tool, selection, refVars>>
    /\ Render(canvas, gco, path)

\* deleteFrame(index)
DeleteFrame(index) ==
    /\ view = "editor"
    /\ index \in 0 .. Len(frames) - 1
    /\ ~(Len(frames) <= 1)
    /\ LET newFrames == RemoveAt(frames, index)
       IN /\ ApplyUpdate(updateFramesWithHistory(history, historyIndex, newFrames))
          /\ currentFrameIndex' =
                IF currentFrameIndex >= Len(newFrames)
                THEN Len(newFrames) - 1
                ELSE currentFrameIndex
    /\ UNCHANGED <<view, layers, activeLayerId, isPlaying, tool, selection, nextId, clipboard,
                   refVars>>
    /\ Render(canvas, gco, path)

\* copyFrame(index)
CopyFrame(index) ==
    /\ view = "editor"
    /\ index \in 0 .. Len(frames) - 1
    /\ LET newFrame == [frames[index + 1] EXCEPT !.id = nextId]
       IN ApplyUpdate(updateFramesWithHistory(history, historyIndex,
               InsertAt(frames, index + 1, newFrame)))
    /\ currentFrameIndex' = index + 1
    /\ nextId' = nextId + 1
    /\ UNCHANGED clipboard
    /\ UNCHANGED <<view, layers, activeLayerId, isPlaying, tool, selection, refVars>>
    /\ Render(canvas, gco, path)

(* --------------------- CanvasArea: pointer handlers ------------------- *)
PointerIds == {1, 2}
Buttons == {0, 2}
\* canvas coordinates of the pointer events explored (getCanvasCoordinates)
Points == {<<0, 0>>, <<1, 1>>, <<2, 1>>, <<6, 6>>}

\* pointers.current.set(id, {x, y}) and pointers.current.delete(id): the table is
\* kept as its key set, the stored client positions being read by pinch zoom only
SetPointer(m, id, p) == m \cup {id}
DelPointer(m, id) == m \ {id}

\* getCanvasCoordinates(clientX, clientY), the viewport at scale 1 and not panned:
\* the client position itself, or the origin while no <canvas> is mounted
getCanvasCoordinates(p) == IF IsNull(canvas) THEN <<0, 0>> ELSE p

\* the pointer is over the selection overlay (the box turned about its centre, its
\* right and bottom edges excluded), so the overlay's own handler takes the event
\* and stops its propagation; positions are doubled to keep the centre integral
OverSelection(sel, p) ==
    LET hw == IF sel.rotation \in {0, 180} THEN sel.width ELSE sel.height
        hh == IF sel.rotation \in {0, 180} THEN sel.height ELSE sel.width
        dx == 2 * p[1] - (2 * sel.x + sel.width)
        dy == 2 * p[2] - (2 * sel.y + sel.height)
    IN dx >= -hw /\ dx < hw /\ dy >= -hh /\ dy < hh

\* the stroke width chosen in the toolbar; it is the font size of the text tool
strokeWidth == 15
\* the advance measureText reports for one character of the bold sans-serif font
GlyphAdvance == 8

\* the values typed into the text input: sequences of characters
Texts == {<<>>, <<" ">>, <<"a">>, <<"a", " ">>}

\* String.prototype.trim
RECURSIVE Trim(_)
Trim(v) ==
    IF v = <<>> THEN v
    ELSE IF Head(v) = " " THEN Trim(Tail(v))
    ELSE IF v[Len(v)] = " " THEN Trim(SubSeq(v, 1, Len(v) - 1))
    ELSE v

\* the selection commitText creates from the text input, if it creates one: the
\* text painted on a canvas of its measured size (glyphs taken as solid ink)
commitText(ti) ==
    IF IsNull(ti) THEN Null
    ELSE IF Trim(Val(ti).value) = <<>> THEN Null
    ELSE LET fontSize == Max(12, strokeWidth)
             width == GlyphAdvance * Len(Val(ti).value)
             height == (fontSize * 12 + 9) \div 10
         IN Some([x |-> Val(ti).x, y |-> Val(ti).y - (fontSize * 2) \div 10,
                  width |-> width, height |-> height,
                  dataUrl |-> [w |-> width, h |-> height,
                               px |-> [q \in PixOf(width, height) |-> InkColor]],
                  rotation |-> 0, scaleX |-> 1, scaleY |-> 1])

\* handlePointerDown reaches its body: not playing, a frame is current, and the
\* event was not taken by the selection overlay
PointerDownReaches(id, p) ==
    /\ presses' = presses + 1
    /\ pressed' = pressed \cup {id}
    /\ UNCHANGED utilVars
    /\ view = "editor"
    /\ ~isPlaying
    /\ HasCurrentFrame(frames, currentFrameIndex)
    /\ IF IsNull(selection) THEN TRUE ELSE ~OverSelection(Val(selection), p)

SecondaryKeepsStroke(id, p) ==
    /\ PointerDownReaches(id, p)
    /\ pointers' = SetPointer(pointers, id, p)
    /\ isGesture' = TRUE
    /\ UNCHANGED <<appVars, ctxVars, isDrawing, hasMoved, drawStart, canvasSnapshot,
                   dragStart, initialSelection, selectionMode, latestSelectionState,
                   textInput>>

\* handlePointerDown, e.button === 2: pan with the secondary mouse button
PointerDownSecondary(id, p) ==
    /\ PointerDownReaches(id, p)
    /\ pointers' = SetPointer(pointers, id, p)
    /\ isGesture' = TRUE
    /\ isDrawing' = FALSE
    /\ UNCHANGED <<appVars, ctxVars, hasMoved, drawStart, canvasSnapshot, dragStart,
                   initialSelection, selectionMode, latestSelectionState,
                   textInput>>

\* handlePointerDown, a second concurrent pointer: pinch
PointerDownSecond(id, p) ==
    /\ PointerDownReaches(id, p)
    /\ pointers' = SetPointer(pointers, id, p)
    /\ Cardinality(pointers') >= 2
    /\ isGesture' = TRUE
    /\ isDrawing' = FALSE
    /\ selectionMode' = "null"
    /\ textInput' = Null
    /\ selection' = IF IsNull(commitText(textInput)) THEN selection
                    ELSE commitText(textInput)
    /\ latestSelectionState' = IF IsNull(commitText(textInput))
                               THEN latestSelectionState ELSE selection'
    /\ UNCHANGED <<view, layers, activeLayerId, frames, history, historyIndex,
                   currentFrameIndex, isPlaying, tool, nextId, edits, clipboard,
                   ctxVars, hasMoved, drawStart, canvasSnapshot, dragStart,
                   initialSelection>>

\* handlePointerDown, text tool: commit the open text input, or commit a floating
\* selection and open an input at the pointer
PointerDownText(id, p) ==
    /\ PointerDownReaches(id, p)
    /\ pointers' = SetPointer(pointers, id, p)
    /\ Cardinality(pointers') < 2
    /\ tool = "text"
    /\ isGesture' = FALSE
    /\ hasMoved' = FALSE
    /\ IF ~IsNull(textInput)
       THEN /\ textInput' = Null
            /\ selection' = IF IsNull(commitText(textInput)) THEN selection
                            ELSE commitText(textInput)
            /\ latestSelectionState' = IF IsNull(commitText(textInput))
                                       THEN latestSelectionState ELSE selection'
            /\ UNCHANGED <<frames, history, historyIndex, edits, isDrawing>>
       ELSE /\ IF ~IsNull(selection)
               THEN /\ ApplyUpdate(handleSelectionCommit(frames, currentFrameIndex,
                                       layers, history, historyIndex, activeLayerId,
                                       Val(selection), edits + 1))
                    /\ selection' = Null
               ELSE UNCHANGED <<frames, history, historyIndex, edits, selection>>
            /\ textInput' = Some([x |-> getCanvasCoordinates(p)[1],
                                  y |-> getCanvasCoordinates(p)[2], value |-> <<>>])
            /\ isDrawing' = FALSE
            /\ UNCHANGED latestSelectionState
    /\ UNCHANGED <<view, layers, activeLayerId, currentFrameIndex, isPlaying, tool,
                   nextId, clipboard, drawStart, canvasSnapshot, dragStart,
                   initialSelection, selectionMode>>
    /\ Render(canvas, gco, path)

\* handlePointerDown, select tool: commit a floating selection, start a marquee
PointerDownSelect(id, p) ==
    /\ PointerDownReaches(id, p)
    /\ pointers' = SetPointer(pointers, id, p)
    /\ Cardinality(pointers') < 2
    /\ tool = "select"
    /\ isGesture' = FALSE
    /\ hasMoved' = FALSE
    /\ IF ~IsNull(selection)
       THEN /\ ApplyUpdate(handleSelectionCommit(frames, currentFrameIndex, layers,
                               history, historyIndex, activeLayerId, Val(selection),
                               edits + 1))
            /\ selection' = Null
       ELSE UNCHANGED <<frames, history, historyIndex, edits, selection>>
    /\ selectionMode' = "create"
    /\ dragStart' = Some(getCanvasCoordinates(p))
    /\ isDrawing' = FALSE
    /\ UNCHANGED <<view, layers, activeLayerId, currentFrameIndex, isPlaying, tool,
                   nextId, clipboard, drawStart, canvasSnapshot, initialSelection,
                   latestSelectionState, textInput>>
    /\ Render(canvas, gco, path)

\* activeLayer?.isLocked || !activeLayer?.isVisible
LayerRejects(ls, aid) ==
    IF IsNull(FindLayer(ls, aid)) THEN TRUE
    ELSE Val(FindLayer(ls, aid)).isLocked \/ ~Val(FindLayer(ls, aid)).isVisible

\* handlePointerDown, a drawing tool on a locked, hidden or missing active layer
PointerDownRejected(id, p) ==
    /\ PointerDownReaches(id, p)
    /\ pointers' = SetPointer(pointers, id, p)
    /\ Cardinality(pointers') < 2
    /\ tool \notin {"select", "text"}
    /\ LayerRejects(layers, activeLayerId)
    /\ isGesture' = FALSE
    /\ hasMoved' = FALSE
    /\ isDrawing' = FALSE
    /\ UNCHANGED <<appVars, ctxVars, drawStart, canvasSnapshot, dragStart,
                   initialSelection, selectionMode, latestSelectionState,
                   textInput>>

\* handlePointerDown, shape tool: keep a snapshot of the canvas for the preview
PointerDownShape(id, p) ==
    /\ PointerDownReaches(id, p)
    /\ pointers' = SetPointer(pointers, id, p)
    /\ Cardinality(pointers') < 2
    /\ tool = "shape"
    /\ ~LayerRejects(layers, activeLayerId)
    /\ isGesture' = FALSE
    /\ hasMoved' = FALSE
    /\ isDrawing' = TRUE
    /\ drawStart' = Some(getCanvasCoordinates(p))
    /\ canvasSnapshot' = canvas
    /\ UNCHANGED <<appVars, ctxVars, dragStart, initialSelection, selectionMode,
                   latestSelectionState, textInput>>

\* handlePointerDown, pen or eraser: begin a path at the pointer, draw nothing yet
PointerDownStroke(id, p) ==
    /\ PointerDownReaches(id, p)
    /\ pointers' = SetPointer(pointers, id, p)
    /\ Cardinality(pointers') < 2
    /\ tool \in {"pen", "eraser"}
    /\ ~LayerRejects(layers, activeLayerId)
    /\ isGesture' = FALSE
    /\ hasMoved' = FALSE
    /\ isDrawing' = TRUE
    /\ drawStart' = Some(getCanvasCoordinates(p))
    /\ path' = MoveTo(getCanvasCoordinates(p))
    /\ gco' = IF tool = "eraser" THEN "destination-out" ELSE "source-over"
    /\ UNCHANGED <<appVars, canvas, canvasSnapshot, dragStart, initialSelection,
                   selectionMode, latestSelectionState, textInput>>

\* handlePointerDown during playback: if (isPlaying || !currentFrame) return
PointerDownIgnored(id, p) ==
    /\ view = "editor"
    /\ HasCurrentFrame(frames, currentFrameIndex)
    /\ isPlaying
    /\ pressed' = pressed \cup {id}
    /\ presses' = presses + 1
    /\ UNCHANGED <<appVars, ctxVars, pointers, isGesture, isDrawing, hasMoved,
                   drawStart, canvasSnapshot, dragStart, initialSelection,
                   selectionMode, latestSelectionState, textInput, utilVars>>

\* handlePointerDown(e)
HandlePointerDown(id, button, p) ==
    IF button = 2 THEN PointerDownSecondary(id, p)
    ELSE \/ PointerDownSecond(id, p)
         \/ PointerDownText(id, p)
         \/ PointerDownSelect(id, p)
         \/ PointerDownRejected(id, p)
         \/ PointerDownShape(id, p)
         \/ PointerDownStroke(id, p)

\* handleSelectionPointerDown(e): a press on the selection overlay starts a move
HandleSelectionPointerDown(id, button, p) ==
    /\ presses' = presses + 1
    /\ pressed' = pressed \cup {id}
    /\ UNCHANGED utilVars
    /\ UNCHANGED textInput
    /\ view = "editor"
    /\ HasCurrentFrame(frames, currentFrameIndex)
    /\ ~IsNull(selection)
    /\ OverSelection(Val(selection), p)
    /\ button # 2
    /\ pointers' = SetPointer(pointers, id, p)
    /\ selectionMode' = "move"
    /\ dragStart' = Some(getCanvasCoordinates(p))
    /\ initialSelection' = selection
    /\ latestSelectionState' = selection
    /\ UNCHANGED <<appVars, ctxVars, isGesture, isDrawing, hasMoved, drawStart,
                   canvasSnapshot>>

\* Math.cos and Math.sin of -rotation degrees, rotation a multiple of 90
CosNeg(r) == CASE r = 0 -> 1 [] r = 90 -> 0 [] r = 180 -> -1 [] r = 270 -> 0
SinNeg(r) == CASE r = 0 -> 0 [] r = 90 -> -1 [] r = 180 -> 0 [] r = 270 -> 1

\* a resize that applies the pointer delta without turning it
LocalDeltaUnrotated(rotation, dx, dy) == <<dx, dy>>

\* the pointer delta in the selection's local frame: <<ldx, ldy>>
LocalDelta(rotation, dx, dy) ==
    <<dx * CosNeg(rotation) - dy * SinNeg(rotation),
      dx * SinNeg(rotation) + dy * CosNeg(rotation)>>

\* a resize that ignores the flips
RemapHandleUnflipped(mode, scaleX, scaleY) == mode

\* the handle whose role a dragged handle plays on a flipped selection
RemapHandle(mode, scaleX, scaleY) ==
    LET h1 == IF scaleX < 0
              THEN CASE mode = "resize-tl" -> "resize-tr"
                     [] mode = "resize-tr" -> "resize-tl"
                     [] mode = "resize-bl" -> "resize-br"
                     [] mode = "resize-br" -> "resize-bl"
              ELSE mode
    IN IF scaleY < 0
       THEN CASE h1 = "resize-tl" -> "resize-bl"
              [] h1 = "resize-tr" -> "resize-br"
              [] h1 = "resize-bl" -> "resize-tl"
              [] h1 = "resize-br" -> "resize-tr"
       ELSE h1

\* handle.includes('l') and handle.includes('t')
IncludesL(handle) == handle \in {"resize-tl", "resize-bl"}
IncludesT(handle) == handle \in {"resize-tl", "resize-tr"}

\* a resize whose minimum size clamps without moving the box back
ResizeBoxUnpivoted(init, handle, ldx, ldy) ==
    LET w0 == IF IncludesL(handle) THEN init.width - ldx ELSE init.width + ldx
        h0 == IF IncludesT(handle) THEN init.height - ldy ELSE init.height + ldy
    IN [x |-> IF IncludesL(handle) THEN init.x + ldx ELSE init.x,
        y |-> IF IncludesT(handle) THEN init.y + ldy ELSE init.y,
        width |-> IF w0 < MinSelectionSize THEN MinSelectionSize ELSE w0,
        height |-> IF h0 < MinSelectionSize THEN MinSelectionSize ELSE h0]

\* the box a resize gives: the handle's deltas, then the minimum size per axis
ResizeBox(init, handle, ldx, ldy) ==
    LET w0 == IF IncludesL(handle) THEN init.width - ldx ELSE init.width + ldx
        h0 == IF IncludesT(handle) THEN init.height - ldy ELSE init.height + ldy
        x0 == IF IncludesL(handle) THEN init.x + ldx ELSE init.x
        y0 == IF IncludesT(handle) THEN init.y + ldy ELSE init.y
        x1 == IF w0 < MinSelectionSize /\ IncludesL(handle)
              THEN x0 - (MinSelectionSize - w0) ELSE x0
        y1 == IF h0 < MinSelectionSize /\ IncludesT(handle)
              THEN y0 - (MinSelectionSize - h0) ELSE y0
    IN [x |-> x1, y |-> y1,
        width |-> IF w0 < MinSelectionSize THEN MinSelectionSize ELSE w0,
        height |-> IF h0 < MinSelectionSize THEN MinSelectionSize ELSE h0]

\* handlePointerMove with a move or a resize in progress: latestSelectionState
DragSelection(init, mode, dx, dy) ==
    LET l == LocalDelta(init.rotation, dx, dy)
        box == IF mode = "move"
               THEN [x |-> init.x + dx, y |-> init.y + dy,
                     width |-> init.width, height |-> init.height]
               ELSE ResizeBox(init, RemapHandle(mode, init.scaleX, init.scaleY),
                              l[1], l[2])
    IN [init EXCEPT !.x = box.x, !.y = box.y,
                    !.width = box.width, !.height = box.height]

\* getDistance(a, b) > 2
FartherThan2(a, b) ==
    (a[1] - b[1]) * (a[1] - b[1]) + (a[2] - b[2]) * (a[2] - b[2]) > 4

\* handlePointerMove(e)
HandlePointerMove(id, p) ==
    LET q == getCanvasCoordinates(p) IN
    /\ view = "editor"
    /\ HasCurrentFrame(frames, currentFrameIndex)
    /\ ~isPlaying
    /\ pointers' = SetPointer(pointers, id, p)
    /\ IF isGesture
       THEN UNCHANGED <<hasMoved, latestSelectionState, ctxVars>>
       ELSE /\ hasMoved' = (hasMoved \/
                   (~IsNull(drawStart) /\ FartherThan2(Val(drawStart), q)))
            /\ latestSelectionState' =
                   IF /\ tool = "select"
                      /\ selectionMode \notin {"null", "create"}
                      /\ ~IsNull(dragStart)
                      /\ ~IsNull(initialSelection)
                   THEN Some(DragSelection(Val(initialSelection), selectionMode,
                                           q[1] - Val(dragStart)[1],
                                           q[2] - Val(dragStart)[2]))
                   ELSE latestSelectionState
            /\ IF isDrawing /\ ~IsNull(canvas)
               THEN IF tool = "shape" /\ ~IsNull(drawStart) /\ ~IsNull(canvasSnapshot)
                    THEN /\ path' = RectPath(Val(drawStart), q)
                         /\ gco' = "source-over"
                         /\ canvas' = Some(StrokePath(Val(canvasSnapshot), path',
                                                      InkColor, gco'))
                    ELSE IF tool \in {"pen", "eraser"}
                    THEN /\ path' = LineTo(path, q)
                         /\ gco' = gco
                         /\ canvas' = Some(StrokePath(Val(canvas), path',
                                                      InkColor, gco))
                    ELSE UNCHANGED ctxVars
               ELSE UNCHANGED ctxVars
    /\ UNCHANGED <<appVars, isGesture, isDrawing, drawStart, canvasSnapshot,
                   dragStart, initialSelection, selectionMode, textInput, presses, pressed,
                   utilVars>>

\* handlePointerUp(e), also bound to pointerleave and pointercancel
HandlePointerUp(id, button, p) ==
    /\ view = "editor"
    /\ HasCurrentFrame(frames, currentFrameIndex)
    /\ pointers' = DelPointer(pointers, id)
    /\ pressed' = pressed \ {id}
    /\ isGesture' = IF button = 2 \/ Cardinality(pointers') < 2
                    THEN FALSE ELSE isGesture
    /\ LET marquee == tool = "select" /\ selectionMode = "create" /\ ~IsNull(dragStart)
           q == getCanvasCoordinates(p)
           width == Abs(q[1] - Val(dragStart)[1])
           height == Abs(q[2] - Val(dragStart)[2])
           left == Min(q[1], Val(dragStart)[1])
           top == Min(q[2], Val(dragStart)[2])
           lifts == /\ marquee
                    /\ width > MinSelectionSize /\ height > MinSelectionSize
                    /\ ~IsNull(canvas)
           updates == /\ tool = "select" /\ ~marquee
                      /\ selectionMode # "null" /\ ~IsNull(latestSelectionState)
           finishes == /\ isDrawing /\ ~IsNull(canvas)
                       /\ tool \in {"pen", "eraser", "shape"}
           dot == tool \in {"pen", "eraser"} /\ ~hasMoved /\ ~IsNull(drawStart)
           path1 == IF finishes
                    THEN ClosePath(IF dot THEN LineTo(path, Val(drawStart)) ELSE path)
                    ELSE path
           cv1 == IF lifts THEN Some(ClearRect(Val(canvas), left, top, width, height))
                  ELSE IF finishes /\ dot
                  THEN Some(StrokePath(Val(canvas), LineTo(path, Val(drawStart)),
                                       InkColor, gco))
                  ELSE canvas
           gco1 == IF finishes /\ tool \in {"pen", "eraser"} THEN "source-over" ELSE gco
           saves == lifts \/ finishes
       IN /\ IF saves
             THEN ApplyUpdate(handleUpdateLayer(frames, currentFrameIndex, layers,
                                  history, historyIndex, activeLayerId, Val(cv1),
                                  edits + 1))
             ELSE UNCHANGED <<frames, history, historyIndex, edits>>
          /\ selection' =
                IF lifts
                THEN Some([x |-> left, y |-> top, width |-> width, height |-> height,
                           dataUrl |-> GetImageData(Val(canvas), left, top,
                                                    width, height),
                           rotation |-> 0, scaleX |-> 1, scaleY |-> 1])
                ELSE IF updates THEN latestSelectionState
                ELSE selection
          /\ latestSelectionState' = IF lifts THEN selection' ELSE latestSelectionState
          /\ UNCHANGED <<view, layers, activeLayerId, currentFrameIndex, isPlaying,
                         tool, nextId, clipboard, hasMoved, textInput, presses,
                   utilVars>>
          /\ Render(cv1, gco1, path1)
    /\ selectionMode' = "null"
    /\ dragStart' = Null
    /\ initialSelection' = Null
    /\ isDrawing' = FALSE
    /\ drawStart' = IF isDrawing THEN Null ELSE drawStart
    /\ canvasSnapshot' = IF isDrawing THEN Null ELSE canvasSnapshot

\* handleResizePointerDown(e, type): a press on one of the overlay's corner handles
HandleResizePointerDown(id, button, p, type) ==
    /\ presses' = presses + 1
    /\ pressed' = pressed \cup {id}
    /\ UNCHANGED utilVars
    /\ UNCHANGED textInput
    /\ view = "editor"
    /\ HasCurrentFrame(frames, currentFrameIndex)
    /\ ~IsNull(selection)
    /\ button # 2
    /\ pointers' = SetPointer(pointers, id, p)
    /\ selectionMode' = type
    /\ dragStart' = Some(getCanvasCoordinates(p))
    /\ initialSelection' = selection
    /\ latestSelectionState' = selection
    /\ UNCHANGED <<appVars, ctxVars, isGesture, isDrawing, hasMoved, drawStart,
                   canvasSnapshot>>

\* a flip that mirrors the selection whatever its state was
FlipHorizontalOnce(sel) == [sel EXCEPT !.scaleX = -1]

\* { ...selection, scaleX: selection.scaleX * -1 }
FlipHorizontal(sel) == [sel EXCEPT !.scaleX = @ * (-1)]

\* a flip that also stretches the selection
FlipVerticalDoubled(sel) == [sel EXCEPT !.scaleY = @ * (-2)]

\* { ...selection, scaleY: selection.scaleY * -1 }
FlipVertical(sel) == [sel EXCEPT !.scaleY = @ * (-1)]

\* a rotation that keeps counting past the full turn
RotateUnwrapped(sel) == [sel EXCEPT !.rotation = @ + 90]

\* { ...selection, rotation: (selection.rotation + 90) % 360 }
Rotate(sel) == [sel EXCEPT !.rotation = (@ + 90) % 360]

\* handleFlipHorizontal; the selection effect then refreshes latestSelectionState
HandleFlipHorizontal ==
    /\ view = "editor"
    /\ ~IsNull(selection)
    /\ selection' = Some(FlipHorizontal(Val(selection)))
    /\ latestSelectionState' = selection'
    /\ UNCHANGED <<view, layers, activeLayerId, frames, history, historyIndex,
                   currentFrameIndex, isPlaying, tool, nextId, clipboard, edits, ctxVars,
                   pointers, isGesture, isDrawing, hasMoved, drawStart,
                   canvasSnapshot, dragStart, initialSelection, selectionMode,
                   textInput, presses, pressed,
                   utilVars>>

\* handleFlipVertical
HandleFlipVertical ==
    /\ view = "editor"
    /\ ~IsNull(selection)
    /\ selection' = Some(FlipVertical(Val(selection)))
    /\ latestSelectionState' = selection'
    /\ UNCHANGED <<view, layers, activeLayerId, frames, history, historyIndex,
                   currentFrameIndex, isPlaying, tool, nextId, clipboard, edits, ctxVars,
                   pointers, isGesture, isDrawing, hasMoved, drawStart,
                   canvasSnapshot, dragStart, initialSelection, selectionMode,
                   textInput, presses, pressed,
                   utilVars>>

\* handleRotate
HandleRotate ==
    /\ view = "editor"
    /\ ~IsNull(selection)
    /\ selection' = Some(Rotate(Val(selection)))
    /\ latestSelectionState' = selection'
    /\ UNCHANGED <<view, layers, activeLayerId, frames, history, historyIndex,
                   currentFrameIndex, isPlaying, tool, nextId, clipboard, edits, ctxVars,
                   pointers, isGesture, isDrawing, hasMoved, drawStart,
                   canvasSnapshot, dragStart, initialSelection, selectionMode,
                   textInput, presses, pressed,
                   utilVars>>

\* the text input's onChange: the typed value replaces the input's value
TypeText(v) ==
    /\ view = "editor"
    /\ ~IsNull(textInput)
    /\ textInput' = Some([Val(textInput) EXCEPT !.value = v])
    /\ UNCHANGED <<appVars, ctxVars, pointers, isGesture, isDrawing, hasMoved,
                   drawStart, canvasSnapshot, dragStart, initialSelection,
                   selectionMode, latestSelectionState, presses, pressed,
                   utilVars>>

\* the text input's onKeyDown with Enter: commitText
TextEnter ==
    /\ view = "editor"
    /\ ~IsNull(textInput)
    /\ textInput' = Null
    /\ selection' = IF IsNull(commitText(textInput)) THEN selection
                    ELSE commitText(textInput)
    /\ latestSelectionState' = IF IsNull(commitText(textInput))
                               THEN latestSelectionState ELSE selection'
    /\ UNCHANGED <<view, layers, activeLayerId, frames, history, historyIndex,
                   currentFrameIndex, isPlaying, tool, nextId, edits, clipboard,
                   ctxVars, pointers, isGesture, isDrawing, hasMoved, drawStart,
                   canvasSnapshot, dragStart, initialSelection, selectionMode,
                   presses, pressed,
                   utilVars>>

\* handleCopy
HandleCopy ==
    /\ view = "editor"
    /\ ~IsNull(selection)
    /\ clipboard' = selection
    /\ UNCHANGED <<view, layers, activeLayerId, frames, history, historyIndex,
                   currentFrameIndex, isPlaying, tool, selection, nextId, edits,
                   ctxVars, refVars>>

\* handlePaste: the clipboard becomes the selection, centred on the canvas
HandlePaste ==
    /\ view = "editor"
    /\ ~IsNull(clipboard)
    /\ selection' = Some([Val(clipboard) EXCEPT
                             !.x = (CanvasW - Val(clipboard).width) \div 2,
                             !.y = (CanvasH - Val(clipboard).height) \div 2])
    /\ latestSelectionState' = selection'
    /\ tool' = "select"
    /\ UNCHANGED <<view, layers, activeLayerId, frames, history, historyIndex,
                   currentFrameIndex, isPlaying, nextId, edits, clipboard, ctxVars,
                   pointers, isGesture, isDrawing, hasMoved, drawStart,
                   canvasSnapshot, dragStart, initialSelection, selectionMode,
                   textInput, presses, pressed,
                   utilVars>>

\* the image files imported: small enough to keep their size, and of the canvas's
\* parity so that centring them lands on whole pixels
ImportedImages ==
    {[w |-> w, h |-> h, px |-> [q \in PixOf(w, h) |-> InkColor]] :
        w \in {w \in 1 .. CanvasW \div 2 : (CanvasW - w) % 2 = 0},
        h \in {h \in 1 .. CanvasH \div 2 : (CanvasH - h) % 2 = 0}}

\* handleImportImage(file), at the image's onload: at most half the canvas wide,
\* its aspect ratio kept, centred, as the floating selection
HandleImportImage(img) ==
    /\ view = "editor"
    /\ LET width == IF 2 * img.w <= CanvasW THEN img.w ELSE CanvasW \div 2
           height == (width * img.h) \div img.w
       IN selection' = Some([x |-> (CanvasW - width) \div 2,
                             y |-> (CanvasH - height) \div 2,
                             width |-> width, height |-> height, dataUrl |-> img,
                             rotation |-> 0, scaleX |-> 1, scaleY |-> 1])
    /\ latestSelectionState' = selection'
    /\ tool' = "select"
    /\ UNCHANGED <<view, layers, activeLayerId, frames, history, historyIndex,
                   currentFrameIndex, isPlaying, nextId, edits, clipboard, ctxVars,
                   pointers, isGesture, isDrawing, hasMoved, drawStart,
                   canvasSnapshot, dragStart, initialSelection, selectionMode,
                   textInput, presses, pressed,
                   utilVars>>

ResizeHandles == {"resize-tl", "resize-tr", "resize-bl", "resize-br"}

\* ids handed out while the edits bound lasts
IdRange == 1 .. MaxEdits + 2

\* the part of the session explored: edits, pointer presses, frames and layers
WithinBounds ==
    /\ edits' <= MaxEdits
    /\ presses' <= MaxPresses
    /\ Len(frames') <= MaxFrames
    /\ Len(layers') <= MaxLayers

Init ==
    /\ view = "menu"
    /\ layers = <<createDefaultLayer(1)>>
    /\ activeLayerId = 1
    /\ frames = <<>>
    /\ history = <<>>
    /\ historyIndex = -1
    /\ currentFrameIndex = 0
    /\ isPlaying = FALSE
    /\ tool = "pen"
    /\ selection = Null
    /\ nextId = 2
    /\ clipboard = Null
    /\ edits = 0
    /\ canvas = Null
    /\ gco = "source-over"
    /\ path = EmptyPath
    /\ RefsInit
    /\ FillIdle
    /\ CompIdle
    /\ ViewInit
    /\ ExportIdle
    /\ SaveIdle
    /\ alerts = <<>>
    /\ AsyncIdle

Next ==
    \/ CreateNewProject /\ WithinBounds
    \/ \E data \in SavedProjects : LoadProject(data) /\ WithinBounds
    \/ BackToMenu /\ WithinBounds
    \/ \E t \in Tools : SetTool(t) /\ WithinBounds
    \/ \E index \in 0 .. MaxFrames - 1 : HandleSelectFrame(index) /\ WithinBounds
    \/ TogglePlay /\ WithinBounds
    \/ AnimateTick /\ WithinBounds
    \/ HandleDeleteSelection /\ WithinBounds
    \/ HandleFlipHorizontal /\ WithinBounds
    \/ HandleFlipVertical /\ WithinBounds
    \/ HandleRotate /\ WithinBounds
    \/ HandleCopy /\ WithinBounds
    \/ HandlePaste /\ WithinBounds
    \/ \E img \in ImportedImages : HandleImportImage(img) /\ WithinBounds
    \/ \E v \in Texts : TypeText(v) /\ WithinBounds
    \/ TextEnter /\ WithinBounds
    \/ \E id \in PointerIds, button \in Buttons, p \in Points, type \in ResizeHandles :
           HandleResizePointerDown(id, button, p, type) /\ WithinBounds
    \/ AddLayer /\ WithinBounds
    \/ \E id \in IdRange : RemoveLayer(id) /\ WithinBounds
    \/ \E id \in IdRange : SelectLayer(id) /\ WithinBounds
    \/ \E id \in IdRange : ToggleLayerVisibility(id) /\ WithinBounds
    \/ \E id \in IdRange : ToggleLayerLock(id) /\ WithinBounds
    \/ Undo /\ WithinBounds
    \/ Redo /\ WithinBounds
    \/ AddFrame /\ WithinBounds
    \/ \E index \in 0 .. MaxFrames - 1 : DeleteFrame(index) /\ WithinBounds
    \/ \E index \in 0 .. MaxFrames - 1 : CopyFrame(index) /\ WithinBounds
    \/ \E id \in PointerIds, button \in Buttons, p \in Points :
           HandlePointerDown(id, button, p) /\ WithinBounds
    \/ \E id \in PointerIds, button \in Buttons, p \in Points :
           HandleSelectionPointerDown(id, button, p) /\ WithinBounds
    \/ \E id \in PointerIds, p \in Points : HandlePointerMove(id, p) /\ WithinBounds
    \/ \E id \in PointerIds, button \in Buttons, p \in Points :
           HandlePointerUp(id, button, p) /\ WithinBounds

Spec == Init /\ [][Next]_vars

(* ----------------- the selection machine, one pointer ----------------- *)
\* One mouse or one finger, primary button, on a loaded project: the marquee
\* lifts, moves and commits regions, the layer can be hidden and locked, and the
\* tool can be switched to the pen, which is pressed on a rejecting layer only.
SinglePointer == {1}
SelectTools == {"pen", "select"}

NextSelect ==
    \/ \E data \in SavedProjects : LoadProject(data) /\ WithinBounds
    \/ \E t \in SelectTools : SetTool(t) /\ WithinBounds
    \/ \E id \in IdRange : ToggleLayerVisibility(id) /\ WithinBounds
    \/ \E id \in IdRange : ToggleLayerLock(id) /\ WithinBounds
    \/ HandleDeleteSelection /\ WithinBounds
    \/ \E id \in SinglePointer, p \in Points : PointerDownSelect(id, p) /\ WithinBounds
    \/ \E id \in SinglePointer, p \in Points :
           PointerDownRejected(id, p) /\ WithinBounds
    \/ \E id \in SinglePointer, p \in Points :
           HandleSelectionPointerDown(id, 0, p) /\ WithinBounds
    \/ \E id \in SinglePointer, p \in Points : HandlePointerMove(id, p) /\ WithinBounds
    \/ \E id \in SinglePointer, p \in Points : HandlePointerUp(id, 0, p) /\ WithinBounds

SpecSelect == Init /\ [][NextSelect]_vars

(* ------------------- the timeline and the layer list ------------------ *)
\* A new project: frames and layers are added, removed and navigated, edits are
\* undone and redone, and the marquee lifts and commits regions.
NextTimeline ==
    \/ CreateNewProject /\ WithinBounds
    \/ SetTool("select") /\ WithinBounds
    \/ \E index \in 0 .. MaxFrames - 1 : HandleSelectFrame(index) /\ WithinBounds
    \/ TogglePlay /\ WithinBounds
    \/ AnimateTick /\ WithinBounds
    \/ AddLayer /\ WithinBounds
    \/ \E id \in IdRange : RemoveLayer(id) /\ WithinBounds
    \/ \E id \in IdRange : SelectLayer(id) /\ WithinBounds
    \/ Undo /\ WithinBounds
    \/ Redo /\ WithinBounds
    \/ AddFrame /\ WithinBounds
    \/ \E index \in 0 .. MaxFrames - 1 : DeleteFrame(index) /\ WithinBounds
    \/ \E index \in 0 .. MaxFrames - 1 : CopyFrame(index) /\ WithinBounds
    \/ \E id \in SinglePointer, p \in {<<0, 0>>} :
           PointerDownSelect(id, p) /\ WithinBounds
    \/ \E id \in SinglePointer, p \in {<<6, 6>>} :
           HandlePointerUp(id, 0, p) /\ WithinBounds

SpecTimeline == Init /\ [][NextTimeline]_vars

(* ----------------------------- the history ---------------------------- *)
\* A new project edited by pen taps, one after the other, each tap released before
\* the next press, with undo and redo in between.  Every edit of the program goes
\* through updateFramesWithHistory as the taps' handleUpdateLayer does.
MaxSeqEdits == 26
\* edits made after an undo, each cutting the redo branch
MaxBranches == 1
TapPoint == <<1, 1>>

\* the edit that built the first frame of the i-th history entry
HistRev(i) == history[i][1].rev

\* the places where the history does not continue with the next edit
HistoryGaps ==
    Cardinality({i \in 1 .. Len(history) - 1 : HistRev(i + 1) # HistRev(i) + 1})

WithinHistoryBounds ==
    /\ edits' <= MaxSeqEdits
    /\ HistoryGaps' <= MaxBranches
    /\ Len(frames') <= MaxFrames
    /\ Len(layers') <= MaxLayers

NextHistory ==
    \/ CreateNewProject /\ WithinHistoryBounds
    \/ \E id \in SinglePointer :
           id \notin pointers /\ PointerDownStroke(id, TapPoint) /\ WithinHistoryBounds
    \/ \E id \in SinglePointer :
           id \in pointers /\ HandlePointerUp(id, 0, TapPoint) /\ WithinHistoryBounds
    \/ Undo /\ WithinHistoryBounds
    \/ Redo /\ WithinHistoryBounds

SpecHistory == Init /\ [][NextHistory]_vars


(* ------------------------ resizing the selection ---------------------- *)
\* A region is lifted on a loaded project, then flipped, rotated and resized by its
\* corner handles with one pointer.
\* pointer presses explored: the marquee's and one grip of a handle
MaxResizePresses == 2
\* where a handle is gripped, and where the marquee is released
GripPoints == {<<0, 0>>, <<1, 1>>, <<6, 6>>}
ReleasePoints == {<<7, 6>>, <<6, 7>>}

WithinResizeBounds ==
    /\ edits' <= MaxEdits
    /\ presses' <= MaxResizePresses

NextResize ==
    \/ \E data \in SavedProjects : LoadProject(data) /\ WithinResizeBounds
    \/ SetTool("select") /\ WithinResizeBounds
    \/ \E id \in SinglePointer, p \in {<<0, 0>>} :
           PointerDownSelect(id, p) /\ WithinResizeBounds
    \/ HandleFlipHorizontal /\ WithinResizeBounds
    \/ HandleFlipVertical /\ WithinResizeBounds
    \/ HandleRotate /\ WithinResizeBounds
    \/ \E id \in SinglePointer, p \in GripPoints, type \in ResizeHandles :
           HandleResizePointerDown(id, 0, p, type) /\ WithinResizeBounds
    \/ \E id \in SinglePointer, p \in {TapPoint} :
           HandleSelectionPointerDown(id, 0, p) /\ WithinResizeBounds
    \/ \E id \in SinglePointer, p \in Points :
           HandlePointerMove(id, p) /\ WithinResizeBounds
    \/ \E id \in SinglePointer, p \in ReleasePoints :
           HandlePointerUp(id, 0, p) /\ WithinResizeBounds

SpecResize == Init /\ [][NextResize]_vars

(* ---------------------- drawing and gesture mode ---------------------- *)
\* A loaded project drawn on with the pen, the eraser, the shape tool and the text
\* tool by two pointers (a mouse with two buttons, a finger), with tool shortcuts,
\* undo and playback at any moment.  A pointer goes down only while it is up, and
\* is released only while it is down; it moves, and leaves the area, at any time.
DrawTools == {"pen", "eraser", "shape", "text"}
PressPoint == <<1, 1>>
DrawPoints == {PressPoint, <<4, 1>>}
MaxDrawPresses == 2
MaxDrawEdits == 2

WithinDrawBounds ==
    /\ presses' <= MaxDrawPresses
    /\ edits' <= MaxDrawEdits

NextDraw ==
    \/ \E data \in SavedProjects : LoadProject(data) /\ WithinDrawBounds
    \/ \E t \in DrawTools : SetTool(t) /\ WithinDrawBounds
    \/ TypeText(<<"a">>) /\ WithinDrawBounds
    \/ Undo /\ historyIndex' # historyIndex /\ WithinDrawBounds
    \/ TogglePlay /\ WithinDrawBounds
    \/ \E id \in PointerIds \ pressed, p \in {PressPoint} :
           PointerDownIgnored(id, p) /\ WithinDrawBounds
    \/ \E id \in PointerIds \ pressed, p \in {PressPoint} :
           PointerDownSecondary(id, p) /\ WithinDrawBounds
    \/ \E id \in PointerIds \ pressed, p \in {PressPoint} :
           PointerDownSecond(id, p) /\ WithinDrawBounds
    \/ \E id \in PointerIds \ pressed, p \in {PressPoint} :
           PointerDownText(id, p) /\ WithinDrawBounds
    \/ \E id \in PointerIds \ pressed, p \in {PressPoint} :
           PointerDownShape(id, p) /\ WithinDrawBounds
    \/ \E id \in PointerIds \ pressed, p \in {PressPoint} :
           PointerDownStroke(id, p) /\ WithinDrawBounds
    \/ \E id \in PointerIds, p \in DrawPoints :
           HandlePointerMove(id, p) /\ WithinDrawBounds
    \/ \E id \in pressed, button \in Buttons, p \in {PressPoint} :
           HandlePointerUp(id, button, p) /\ WithinDrawBounds
    \/ \E id \in pointers \ pressed, p \in {PressPoint} :
           HandlePointerUp(id, 0, p) /\ WithinDrawBounds

SpecDraw == Init /\ [][NextDraw]_vars

(* ------------------------------ claims -------------------------------- *)
\* the id of the frame shown, -1 when the timeline is empty
CurrentFrameId ==
    IF HasCurrentFrame(frames, currentFrameIndex)
    THEN frames[currentFrameIndex + 1].id ELSE -1

\* C1: whenever the frame shown changes while a selection is floating, no selection
\* is floating right after the change (it was committed or discarded first).
C1_SelectionEndsAtNavigation ==
    [][(~IsNull(selection) /\ view' = view /\ CurrentFrameId' # CurrentFrameId)
           => IsNull(selection')]_vars

\* C2: a step that switches the tool away from select while a selection is floating
\* commits it: the selection is gone and the frames are those the commit stores.
C2_ToolSwitchCommits ==
    [][(tool = "select" /\ tool' # "select" /\ ~IsNull(selection))
           => /\ IsNull(selection')
              /\ frames' = handleSelectionCommit(frames, currentFrameIndex, layers,
                               history, historyIndex, activeLayerId, Val(selection),
                               edits + 1).frames]_vars

\* C5: every frame of the timeline has a bitmap entry for every layer of the list.
C5_FramesCoverLayers ==
    \A i \in DOMAIN frames : LayerIds(layers) \subseteq DOMAIN frames[i].layers

\* C6: the layer list is never empty, and a removeLayer on the last remaining layer
\* leaves the layer list, the active layer and the frames as they were.
C6_LayerListNeverEmpty ==
    /\ [](Len(layers) >= 1)
    /\ [][\A id \in IdRange :
             (Len(layers) = 1 /\ RemoveLayer(id))
                 => UNCHANGED <<layers, activeLayerId, frames>>]_vars

\* a removal has left a single layer, the one added later
C6_Witness == Len(layers) = 1 /\ layers[1].id # 1

\* C3: the history never holds more than 20 snapshots; once more edits than that
\* were made one after the other, the oldest snapshot kept is that of the edit 20
\* back (after 25 edits on a new project, the 6th edit's, not the initial state),
\* historyIndex 0 shows it, and an undo at historyIndex 0 changes nothing.
C3_HistoryBounded ==
    /\ [](Len(history) <= HistoryCap)
    /\ []((view = "editor" /\ HistoryGaps = 0 /\ edits > HistoryCap)
            => /\ Len(history) = HistoryCap
               /\ HistRev(1) = edits - HistoryCap + 1
               /\ historyIndex = 0 => frames = history[1])
    /\ [][(historyIndex = 0 /\ Undo)
            => UNCHANGED <<frames, history, historyIndex>>]_vars

\* 25 edits after the project's creation, then 19 undos
C3_Witness ==
    /\ edits = MaxSeqEdits /\ HistoryGaps = 0
    /\ historyIndex = 0 /\ frames[1].rev = MaxSeqEdits - HistoryCap + 1

\* C4: an edit made at a history position that is not the last drops every snapshot
\* after the position: the history becomes the snapshots up to the position,
\* unchanged, followed by the new one, historyIndex points at it, redo does nothing.
C4_EditCutsRedoBranch ==
    [][(/\ view = "editor" /\ view' = view
        /\ edits' = edits + 1
        /\ historyIndex < Len(history) - 1)
       => /\ history' = Append(SubSeq(history, 1, historyIndex + 1), frames')
          /\ historyIndex' = Len(history') - 1
          /\ ~CanRedo(history', historyIndex')]_vars

\* an edit has just been made after undos
C4_Witness ==
    /\ HistoryGaps = 1
    /\ historyIndex = Len(history) - 1
    /\ HistRev(Len(history)) = edits

\* the marquee rectangle between the press point a and the release point b
MarqueeRect(a, b) ==
    [left |-> Min(a[1], b[1]), top |-> Min(a[2], b[2]),
     width |-> Abs(b[1] - a[1]), height |-> Abs(b[2] - a[2])]

\* C7: a marquee release on a visible active layer creates a selection exactly when
\* the rectangle exceeds 5 x 5; then its box is the rectangle, rotation 0, scales +1,
\* its bitmap is that region of the layer's bitmap and the region is cleared in the
\* layer in the same step; a smaller drag creates nothing and leaves the layer alone.
C7_MarqueeReleaseLifts ==
    [][\A id \in PointerIds, p \in Points :
         (/\ tool = "select" /\ selectionMode = "create" /\ ~IsNull(dragStart)
          /\ ~IsNull(FindLayer(layers, activeLayerId))
          /\ Val(FindLayer(layers, activeLayerId)).isVisible
          /\ HandlePointerUp(id, 0, p))
         => LET r == MarqueeRect(Val(dragStart), p)
                before == StoredLayer(frames, currentFrameIndex, activeLayerId)
                after == StoredLayer(frames', currentFrameIndex', activeLayerId')
            IN IF r.width > 5 /\ r.height > 5
               THEN /\ selection' = Some(
                           [x |-> r.left, y |-> r.top,
                            width |-> r.width, height |-> r.height,
                            dataUrl |-> GetImageData(before, r.left, r.top,
                                                     r.width, r.height),
                            rotation |-> 0, scaleX |-> 1, scaleY |-> 1])
                    /\ after = ClearRect(before, r.left, r.top, r.width, r.height)
               ELSE IsNull(selection') /\ after = before]_vars

\* pre with the w x h region at (x0, y0) lifted and put back moved by (dx, dy)
Translated(pre, x0, y0, w, h, dx, dy) ==
    [pre EXCEPT !.px = [q \in PixOf(pre.w, pre.h) |->
        LET sx == q[1] - dx
            sy == q[2] - dy
            c == IF sx >= x0 /\ sx < x0 + w /\ sy >= y0 /\ sy < y0 + h
                 THEN PixelAt(pre, sx, sy) ELSE 0
        IN IF c # 0 THEN c
           ELSE IF /\ q[1] >= x0 /\ q[1] < x0 + w
                   /\ q[2] >= y0 /\ q[2] < y0 + h
           THEN 0 ELSE pre.px[q]]]

\* C8: when a lifted selection is committed, the layer is its bitmap from before the
\* lift with the lifted region moved by the selection's displacement: the region's
\* pixels at the translated place, the rest of the source region empty, and with no
\* displacement the bitmap from before the lift.
C8_LiftMoveCommitTranslates ==
    [][(/\ ~IsNull(selection) /\ IsNull(selection') /\ edits' = edits + 1
        /\ historyIndex >= 1)
       => LET sel == Val(selection)
              pre == StoredLayer(history[historyIndex], currentFrameIndex,
                                 activeLayerId)
              after == StoredLayer(frames', currentFrameIndex', activeLayerId')
          IN \E x0 \in 0 .. CanvasW, y0 \in 0 .. CanvasH :
                 after = Translated(pre, x0, y0, sel.width, sel.height,
                                    sel.x - x0, sel.y - y0)]_vars

\* C9: while the active layer is locked, hidden or missing, no step changes the
\* bitmap stored for it in the frame shown.
C9_RejectingLayerKeepsBitmap ==
    [][(/\ view = "editor" /\ view' = view
        /\ LayerRejects(layers, activeLayerId)
        /\ layers' = layers /\ activeLayerId' = activeLayerId
        /\ CurrentFrameId' = CurrentFrameId)
       => StoredLayer(frames', currentFrameIndex', activeLayerId')
              = StoredLayer(frames, currentFrameIndex, activeLayerId)]_vars

\* C10: while a corner handle is dragged, the resized box is at least 5 wide and 5
\* high, and the edge opposite to the handle's role keeps its coordinate: x + width
\* for a left role, x for a right role, y + height for a top role, y for a bottom one.
C10_ResizeKeepsOppositeEdge ==
    (/\ selectionMode \in ResizeHandles
     /\ ~IsNull(initialSelection) /\ ~IsNull(latestSelectionState))
    => LET init == Val(initialSelection)
           now == Val(latestSelectionState)
           handle == RemapHandle(selectionMode, init.scaleX, init.scaleY)
       IN /\ now.width >= 5 /\ now.height >= 5
          /\ IF IncludesL(handle) THEN now.x + now.width = init.x + init.width
             ELSE now.x = init.x
          /\ IF IncludesT(handle) THEN now.y + now.height = init.y + init.height
             ELSE now.y = init.y

\* a flipped and rotated selection dragged by a left role until the minimum clamps
C10_Witness ==
    /\ selectionMode \in ResizeHandles
    /\ ~IsNull(initialSelection) /\ ~IsNull(latestSelectionState)
    /\ Val(initialSelection).scaleX = -1
    /\ Val(initialSelection).rotation = 90
    /\ IncludesL(RemapHandle(selectionMode, -1, Val(initialSelection).scaleY))
    /\ Val(latestSelectionState).width = 5
    /\ Val(initialSelection).width > 5

(* ----------------------- floodFill (drawingUtils) ---------------------- *)
\* a colour is <<r, g, b, a>>; the channels read outside the data array are undefined
UndefinedPixel == <<-1, -1, -1, -1>>
Transparent == <<0, 0, 0, 0>>
Black == <<0, 0, 0, 255>>

\* parseInt(digit, 16)
HexDigits ==
    <<"0", "1", "2", "3", "4", "5", "6", "7", "8", "9", "a", "b", "c", "d", "e", "f">>
HexVal(c) == (CHOOSE i \in 1 .. 16 : HexDigits[i] = c) - 1

\* hexToRgba(hex): hex is "#rrggbb", one character per element
hexToRgba(hex) ==
    <<16 * HexVal(hex[2]) + HexVal(hex[3]),
      16 * HexVal(hex[4]) + HexVal(hex[5]),
      16 * HexVal(hex[6]) + HexVal(hex[7]), 255>>

\* getPixel(data, x, y, width): data holds one colour per pixel, row after row
getPixel(data, x, y, width) ==
    LET index == y * width + x
    IN IF index >= 0 /\ index < Len(data) THEN data[index + 1] ELSE UndefinedPixel

\* setPixel(data, x, y, width, color): a write outside a typed array is dropped
setPixel(data, x, y, width, color) ==
    LET index == y * width + x
    IN IF index >= 0 /\ index < Len(data) THEN [data EXCEPT ![index + 1] = color]
       ELSE data

\* colorsMatch(c1, c2)
colorsMatch(c1, c2) ==
    c1[1] = c2[1] /\ c1[2] = c2[2] /\ c1[3] = c2[3] /\ c1[4] = c2[4]

\* a guard that never finds the seed filled already
SameColorNever(targetColor, fillColor) == FALSE

\* "If colors are the same, return"
SameColor(targetColor, fillColor) == colorsMatch(targetColor, fillColor)

\* a left scan that stays at the seed
FindLeftStay(data, x, y, width, target) == x

\* "Find left bound": the first x of the run of target pixels that ends at x
RECURSIVE FindLeft(_, _, _, _, _)
FindLeft(data, x, y, width, target) ==
    IF x >= 0 /\ colorsMatch(getPixel(data, x, y, width), target)
    THEN FindLeft(data, x - 1, y, width, target)
    ELSE x + 1

\* a right scan that runs one pixel past the row
InRowAndBeyond(x, width) == x < width + 1

\* currentX < width
InRow(x, width) == x < width

\* "Scan right" from s.x on row y: fill the run of target pixels, pushing one seed
\* for each span of target pixels above and below it; s.steps counts the pixels
RECURSIVE ScanRight(_, _, _, _, _, _)
ScanRight(s, y, width, height, target, fillColor) ==
    IF InRow(s.x, width) /\ colorsMatch(getPixel(s.data, s.x, y, width), target)
    THEN LET data1 == setPixel(s.data, s.x, y, width, fillColor)
             checkAbove == colorsMatch(getPixel(data1, s.x, y - 1, width), target)
             checkBelow == colorsMatch(getPixel(data1, s.x, y + 1, width), target)
             pushAbove == y > 0 /\ ~s.spanAbove /\ checkAbove
             pushBelow == y < height - 1 /\ ~s.spanBelow /\ checkBelow
             queue1 == IF pushAbove THEN Append(s.queue, <<s.x, y - 1>>) ELSE s.queue
             queue2 == IF pushBelow THEN Append(queue1, <<s.x, y + 1>>) ELSE queue1
         IN ScanRight([data |-> data1, queue |-> queue2, x |-> s.x + 1,
                       spanAbove |-> IF y > 0 THEN checkAbove ELSE s.spanAbove,
                       spanBelow |-> IF y < height - 1 THEN checkBelow
                                     ELSE s.spanBelow,
                       steps |-> s.steps + 1],
                      y, width, height, target, fillColor)
    ELSE s

\* the canvas the running call was made on, and the canvas as the call leaves it
FillCanvas == Val(fillCall).canvas
FillResult == IF fillPc = "put" THEN Val(fillData) ELSE FillCanvas.px

\* floodFill(ctx, startX, startY, fillColorHex) up to its main loop: read the image
\* data, sample the target colour, return if it is the fill colour, queue the seed
FloodFillEnter(cv, startX, startY, fillColorHex, repeat) ==
    LET targetColor == getPixel(cv.px, startX, startY, cv.w)
    IN /\ fillCall' = Some([canvas |-> cv, startX |-> startX, startY |-> startY,
                            fillColorHex |-> fillColorHex, repeat |-> repeat])
       /\ fillData' = Some(cv.px)
       /\ fillTarget' = Some(targetColor)
       /\ fillIterations' = 0
       /\ fillScan' = 0
       /\ IF SameColor(targetColor, hexToRgba(fillColorHex))
          THEN fillPc' = "returned" /\ fillQueue' = <<>>
          ELSE fillPc' = "loop" /\ fillQueue' = <<<<startX, startY>>>>
       /\ UNCHANGED <<appVars, ctxVars, pointers, isGesture, isDrawing, hasMoved,
                      drawStart, canvasSnapshot, dragStart, initialSelection,
                      selectionMode, latestSelectionState, textInput, presses, pressed, compVars, ioVars>>

\* a call of floodFill
FloodFillCall(cv, startX, startY, fillColorHex) ==
    /\ fillPc = "idle"
    /\ FloodFillEnter(cv, startX, startY, fillColorHex, FALSE)

\* the same fill at the same seed once more, on the canvas the call has left
FloodFillAgain ==
    /\ fillPc \in {"returned", "put"}
    /\ ~Val(fillCall).repeat
    /\ FloodFillEnter([FillCanvas EXCEPT !.px = FillResult], Val(fillCall).startX,
                      Val(fillCall).startY, Val(fillCall).fillColorHex, TRUE)

\* queue.length > 0 && iterations < maxIterations
LoopContinues == fillQueue # <<>> /\ fillIterations < FillCanvas.w * FillCanvas.h

\* one iteration of the main loop: pop a seed, find its run's left end, scan right
\* (the visited set is never added to, so its test never skips a seed)
FloodFillIteration ==
    /\ fillPc = "loop"
    /\ LoopContinues
    /\ LET seed == fillQueue[Len(fillQueue)]
           width == FillCanvas.w
           left == FindLeft(Val(fillData), seed[1], seed[2], width, Val(fillTarget))
           scan == ScanRight([data |-> Val(fillData),
                              queue |-> SubSeq(fillQueue, 1, Len(fillQueue) - 1),
                              x |-> left, spanAbove |-> FALSE, spanBelow |-> FALSE,
                              steps |-> 0],
                             seed[2], width, FillCanvas.h, Val(fillTarget),
                             hexToRgba(Val(fillCall).fillColorHex))
       IN /\ fillData' = Some(scan.data)
          /\ fillQueue' = scan.queue
          /\ fillScan' = scan.steps
    /\ fillIterations' = fillIterations + 1
    /\ UNCHANGED <<appVars, ctxVars, pointers, isGesture, isDrawing, hasMoved,
                   drawStart, canvasSnapshot, dragStart, initialSelection,
                   selectionMode, latestSelectionState, textInput, presses, pressed,
                   compVars, ioVars, fillCall, fillTarget, fillPc>>

\* the main loop is left: ctx.putImageData(imageData, 0, 0)
FloodFillPut ==
    /\ fillPc = "loop"
    /\ ~LoopContinues
    /\ fillPc' = "put"
    /\ UNCHANGED <<appVars, ctxVars, pointers, isGesture, isDrawing, hasMoved,
                   drawStart, canvasSnapshot, dragStart, initialSelection,
                   selectionMode, latestSelectionState, textInput, presses, pressed,
                   compVars, ioVars, fillCall, fillData, fillTarget, fillQueue,
                   fillIterations,
                   fillScan>>

\* the buffers filled: every buffer of FillW x FillH transparent or black pixels, and
\* a square of ExampleSide pixels, transparent inside a black border one pixel wide
FillW == 3
FillH == 3
ExampleSide == 8

SmallBuffers ==
    {[w |-> FillW, h |-> FillH, px |-> px] :
        px \in [1 .. FillW * FillH -> {Transparent, Black}]}

BorderedBuffer ==
    [w |-> ExampleSide, h |-> ExampleSide,
     px |-> [i \in 1 .. ExampleSide * ExampleSide |->
               LET x == (i - 1) % ExampleSide
                   y == (i - 1) \div ExampleSide
               IN IF x \in {0, ExampleSide - 1} \/ y \in {0, ExampleSide - 1}
                  THEN Black ELSE Transparent]]

\* the fill colours: black and red
Hexes == {<<"#", "0", "0", "0", "0", "0", "0">>, <<"#", "f", "f", "0", "0", "0", "0">>}

NextFill ==
    \/ /\ fillPc = "idle"
       /\ \E cv \in SmallBuffers, x \in -1 .. FillW, y \in -1 .. FillH,
             hex \in Hexes : FloodFillCall(cv, x, y, hex)
    \/ /\ fillPc = "idle"
       /\ \E hex \in Hexes :
             FloodFillCall(BorderedBuffer, ExampleSide \div 2, ExampleSide \div 2,
                           hex)
    \/ FloodFillAgain
    \/ FloodFillIteration
    \/ FloodFillPut

SpecFill == Init /\ [][NextFill]_vars

\* a started call runs on: the loop is plain sequential code. An iteration is
\* enabled exactly while the loop continues and always changes fillIterations, so
\* its weak fairness is written out with that condition in place of ENABLED
IterationEnabled == fillPc = "loop" /\ LoopContinues

SpecFillFair ==
    /\ SpecFill
    /\ WF_vars(FloodFillPut)
    /\ ([]<>(~IterationEnabled) \/ []<><<FloodFillIteration>>_vars)

(* --------------------------- compositeLayers --------------------------- *)
\* a bitmap that does not decode: its image fires onerror, never onload
CorruptUrl == [w |-> -1, h |-> -1, px |-> <<>>]
Decodes(url) == url # CorruptUrl

\* the colour of the background colour '#ffffff'
White == InkColor + 1

\* ctx.fillRect(0, 0, width, height) with fillStyle = color
FillRect(cv, color) == [cv EXCEPT !.px = [p \in PixOf(cv.w, cv.h) |-> color]]

\* ctx.drawImage(img, 0, 0, width, height): the image scaled to width x height
DrawImageScaled(dst, img, width, height) ==
    [dst EXCEPT !.px = [p \in PixOf(dst.w, dst.h) |->
        LET c == IF p[1] < width /\ p[2] < height
                 THEN PixelAt(img, (p[1] * img.w) \div width,
                              (p[2] * img.h) \div height)
                 ELSE 0
        IN IF c # 0 THEN c ELSE dst.px[p]]]

\* layer.isVisible && frame.layers[layer.id]: '' and a missing entry are falsy
LayerIsDrawnThoughHidden(layer, frame) ==
    /\ layer.id \in DOMAIN frame.layers
    /\ frame.layers[layer.id] # EmptyUrl

LayerIsDrawn(layer, frame) ==
    /\ layer.isVisible
    /\ layer.id \in DOMAIN frame.layers
    /\ frame.layers[layer.id] # EmptyUrl

\* await new Promise(resolve => ...): the function goes on when the image whose
\* handlers hold resolve has fired
AwaitedAtOnce(pending) == TRUE
Awaited(pending) == pending = {}

CompLayers == Val(compCall).layers
CompFrame == Val(compCall).frame

\* the src of an image in flight: image 0 is the background's, image k layer k's
SrcOf(k) ==
    IF k = 0 THEN Val(Val(compCall).backgroundImage)
    ELSE CompFrame.layers[CompLayers[k].id]

nonCompVars == <<appVars, ctxVars, pointers, isGesture, isDrawing, hasMoved,
                 drawStart, canvasSnapshot, dragStart, initialSelection,
                 selectionMode, latestSelectionState, textInput, presses, pressed,
                 fillVars, ioVars>>

\* compositeLayers(frame, layers, width, height, backgroundColor, backgroundImage)
\* up to its layer loop: a new canvas, and the background image's load or the
\* background colour
CompositeCall(frame, ls, width, height, backgroundColor, backgroundImage) ==
    /\ compPc = "idle"
    /\ compCall' = Some([frame |-> frame, layers |-> ls, width |-> width,
                         height |-> height, backgroundColor |-> backgroundColor,
                         backgroundImage |-> backgroundImage])
    /\ compPc' = "loop"
    /\ compIndex' = 1
    /\ IF ~IsNull(backgroundImage)
       THEN /\ compPending' = {0}
            /\ compCanvas' = Some(NewCanvas(width, height))
            /\ compDrawn' = <<>>
       ELSE /\ compPending' = {}
            /\ compCanvas' =
                 Some(IF backgroundColor = "transparent"
                      THEN ClearRect(NewCanvas(width, height), 0, 0, width, height)
                      ELSE FillRect(NewCanvas(width, height), White))
            /\ compDrawn' = <<0>>
    /\ compResolved' = <<>>
    /\ compResult' = Null
    /\ UNCHANGED nonCompVars

\* the loop reaches a layer that is visible and has a bitmap: a new image gets its
\* handlers and its src, and the function waits for it
CompositeLoadLayer ==
    /\ compPc = "loop"
    /\ Awaited(compPending)
    /\ compIndex <= Len(CompLayers)
    /\ LayerIsDrawn(CompLayers[compIndex], CompFrame)
    /\ compPending' = compPending \cup {compIndex}
    /\ compIndex' = compIndex + 1
    /\ UNCHANGED <<nonCompVars, compCall, compPc, compCanvas, compDrawn,
                   compResolved, compResult>>

\* the loop reaches a layer that is hidden or has no bitmap
CompositeSkipLayer ==
    /\ compPc = "loop"
    /\ Awaited(compPending)
    /\ compIndex <= Len(CompLayers)
    /\ ~LayerIsDrawn(CompLayers[compIndex], CompFrame)
    /\ compIndex' = compIndex + 1
    /\ UNCHANGED <<nonCompVars, compCall, compPc, compPending, compCanvas,
                   compDrawn, compResolved, compResult>>

\* the loop is over: return canvas.toDataURL('image/png')
CompositeReturn ==
    /\ compPc = "loop"
    /\ Awaited(compPending)
    /\ compIndex > Len(CompLayers)
    /\ compPc' = "returned"
    /\ compResult' = compCanvas
    /\ UNCHANGED <<nonCompVars, compCall, compIndex, compPending, compCanvas,
                   compDrawn, compResolved>>

\* img.onload of image k: draw it and resolve
ImageOnload(k) ==
    /\ k \in compPending
    /\ Decodes(SrcOf(k))
    /\ compCanvas' =
         Some(IF k = 0
              THEN DrawImageScaled(Val(compCanvas), SrcOf(k), Val(compCall).width,
                                   Val(compCall).height)
              ELSE DrawImage(Val(compCanvas), SrcOf(k), 0, 0))
    /\ compDrawn' = Append(compDrawn, k)
    /\ compResolved' = Append(compResolved, k)
    /\ compPending' = compPending \ {k}
    /\ UNCHANGED <<nonCompVars, compCall, compPc, compIndex, compResult>>

\* img.onerror of image k: resolve
ImageOnerror(k) ==
    /\ k \in compPending
    /\ ~Decodes(SrcOf(k))
    /\ compResolved' = Append(compResolved, k)
    /\ compPending' = compPending \ {k}
    /\ UNCHANGED <<nonCompVars, compCall, compPc, compIndex, compCanvas,
                   compDrawn, compResult>>

\* the composites explored: canvases of CompW x CompH pixels, up to MaxCompLayers
\* layers, layer k's bitmap painting colour k from pixel column k - 1 rightwards
CompW == 3
CompH == 1
MaxCompLayers == 3

LayerBitmap(k) ==
    [w |-> CompW, h |-> CompH,
     px |-> [p \in PixOf(CompW, CompH) |-> IF p[1] >= k - 1 THEN k ELSE 0]]

\* a background image half as wide again as the canvas, in the ink colour
BackgroundBitmap ==
    [w |-> 2 * CompW, h |-> CompH,
     px |-> [p \in PixOf(2 * CompW, CompH) |-> IF p[1] < 2 THEN InkColor ELSE 0]]

CompLayerLists ==
    UNION {[1 .. n -> {[id |-> k, isVisible |-> v, isLocked |-> FALSE] :
                          k \in 1 .. MaxCompLayers, v \in BOOLEAN}] :
           n \in 0 .. MaxCompLayers}

\* every layer at the place of its id, as addLayer builds the list
InIdOrder(ls) == \A i \in DOMAIN ls : ls[i].id = i

CompFrames(ls) ==
    UNION {{[id |-> 1, layers |-> f] :
              f \in {g \in [D -> {EmptyUrl, CorruptUrl} \cup
                                 {LayerBitmap(k) : k \in 1 .. MaxCompLayers}] :
                        \A k \in D : g[k] \in {EmptyUrl, CorruptUrl, LayerBitmap(k)}}} :
           D \in SUBSET LayerIds(ls)}

Backgrounds ==
    {[color |-> "transparent", image |-> Null],
     [color |-> "#ffffff", image |-> Null],
     [color |-> "transparent", image |-> Some(BackgroundBitmap)],
     [color |-> "#ffffff", image |-> Some(CorruptUrl)]}

NextComposite ==
    \/ /\ compPc = "idle"
       /\ \E ls \in {l \in CompLayerLists : InIdOrder(l)} :
             \E frame \in CompFrames(ls), bg \in Backgrounds :
                CompositeCall(frame, ls, CompW, CompH, bg.color, bg.image)
    \/ CompositeLoadLayer
    \/ CompositeSkipLayer
    \/ CompositeReturn
    \/ \E k \in compPending : ImageOnload(k)
    \/ \E k \in compPending : ImageOnerror(k)

SpecComposite == Init /\ [][NextComposite]_vars

(* ------------------ the selection's sources and transforms ------------ *)
\* where the text tool is pressed, and where the marquee of a paste is released
TextPoint == <<2, 1>>
FullCanvas == <<CanvasW, CanvasH>>

\* centring the clipboard lands on whole pixels
PasteLandsOnPixels ==
    IF IsNull(clipboard) THEN FALSE
    ELSE /\ (CanvasW - Val(clipboard).width) % 2 = 0
         /\ (CanvasH - Val(clipboard).height) % 2 = 0

\* edits explored: the lift of a marquee
MaxTransformEdits == 1

\* the part of the session explored: a new selection arrives (text, import, paste)
\* when none is floating, and one selection is copied, unrotated, before it is
\* dragged
WithinTransformBounds ==
    /\ edits' <= MaxTransformEdits
    /\ presses' <= MaxResizePresses
    /\ clipboard' # clipboard =>
          /\ IsNull(clipboard) /\ presses <= 1
          /\ Val(clipboard').rotation = 0 /\ Val(clipboard').scaleY = 1
    /\ (selection' # selection /\ ~IsNull(selection) /\ ~IsNull(selection'))
          => Val(selection').dataUrl = Val(selection).dataUrl

NextTransform ==
    \/ \E data \in SavedProjects : LoadProject(data) /\ WithinTransformBounds
    \/ \E t \in {"select", "text"} : SetTool(t) /\ WithinTransformBounds
    \/ \E id \in SinglePointer :
           PointerDownSelect(id, <<0, 0>>) /\ WithinTransformBounds
    \/ \E id \in SinglePointer :
           PointerDownText(id, TextPoint) /\ WithinTransformBounds
    \/ \E v \in {<<" ">>, <<"a">>} : TypeText(v) /\ WithinTransformBounds
    \/ TextEnter /\ WithinTransformBounds
    \/ \E img \in {i \in ImportedImages : i.w = i.h /\ i.w > 1} :
           HandleImportImage(img) /\ WithinTransformBounds
    \/ HandleCopy /\ WithinTransformBounds
    \/ PasteLandsOnPixels /\ HandlePaste /\ WithinTransformBounds
    \/ HandleDeleteSelection /\ WithinTransformBounds
    \/ HandleFlipHorizontal /\ WithinTransformBounds
    \/ HandleFlipVertical /\ WithinTransformBounds
    \/ HandleRotate /\ WithinTransformBounds
    \/ \E id \in SinglePointer, type \in {"resize-br"} :
           HandleResizePointerDown(id, 0, TapPoint, type) /\ WithinTransformBounds
    \/ \E id \in SinglePointer :
           HandleSelectionPointerDown(id, 0, TapPoint) /\ WithinTransformBounds
    \/ \E id \in SinglePointer, p \in {TextPoint} :
           id \in pointers /\ HandlePointerMove(id, p) /\ WithinTransformBounds
    \/ \E id \in SinglePointer, p \in {FullCanvas} :
           id \in pointers /\ HandlePointerUp(id, 0, p) /\ WithinTransformBounds

SpecTransform == Init /\ [][NextTransform]_vars

\* a corner handle is being dragged / the selection is being moved
Resizing ==
    /\ tool = "select" /\ ~isGesture
    /\ selectionMode \in ResizeHandles
    /\ ~IsNull(dragStart) /\ ~IsNull(initialSelection)

Moving ==
    /\ tool = "select" /\ ~isGesture
    /\ selectionMode = "move"
    /\ ~IsNull(dragStart) /\ ~IsNull(initialSelection)

\* the corner named by its sides
CornerHandle(top, left) ==
    IF top THEN (IF left THEN "resize-tl" ELSE "resize-tr")
    ELSE (IF left THEN "resize-bl" ELSE "resize-br")

\* the role of a handle on a flipped selection: a negative scaleX swaps left and
\* right, a negative scaleY swaps top and bottom
FlippedRole(mode, scaleX, scaleY) ==
    CornerHandle(IF scaleY = -1 THEN ~IncludesT(mode) ELSE IncludesT(mode),
                 IF scaleX = -1 THEN ~IncludesL(mode) ELSE IncludesL(mode))

\* the selection as grabbed, with the box a handle of the given role gives for a
\* local delta
Resized(init, role, l) ==
    [init EXCEPT !.x = ResizeBox(init, role, l[1], l[2]).x,
                 !.y = ResizeBox(init, role, l[1], l[2]).y,
                 !.width = ResizeBox(init, role, l[1], l[2]).width,
                 !.height = ResizeBox(init, role, l[1], l[2]).height]

\* C11: every pointer move of a resize applies the delta with the dragged handle in
\* the role the flips of the grabbed selection give it: left and right swapped when
\* scaleX = -1, top and bottom swapped when scaleY = -1, the diagonal opposite when
\* both are negative, the handle itself when both are +1.
C11_FlipRemapsHandle ==
    [][\A id \in SinglePointer, p \in Points :
         (Resizing /\ HandlePointerMove(id, p)) =>
            LET init == Val(initialSelection)
                q == getCanvasCoordinates(p)
                l == LocalDelta(init.rotation, q[1] - Val(dragStart)[1],
                                q[2] - Val(dragStart)[2])
            IN latestSelectionState' =
                   Some(Resized(init, FlippedRole(selectionMode, init.scaleX,
                                                  init.scaleY), l))]_vars

\* a selection flipped on both axes whose dragged handle has changed the box
C11_Witness ==
    /\ Resizing
    /\ Val(initialSelection).scaleX = -1 /\ Val(initialSelection).scaleY = -1
    /\ ~IsNull(latestSelectionState)
    /\ Val(latestSelectionState).width # Val(initialSelection).width
    /\ Val(latestSelectionState).height # Val(initialSelection).height

\* the pointer delta turned by minus the rotation, per quarter turn
TurnedDelta(rotation, dx, dy) ==
    CASE rotation = 0 -> <<dx, dy>>
      [] rotation = 90 -> <<dy, -dx>>
      [] rotation = 180 -> <<-dx, -dy>>
      [] rotation = 270 -> <<-dy, dx>>

\* C12: every pointer move of a resize applies the pointer delta turned by minus the
\* selection's rotation, (dx,dy), (dy,-dx), (-dx,-dy), (-dy,dx) for 0, 90, 180 and
\* 270 degrees, while a pointer move of a move adds the delta itself to x and y and
\* leaves the size alone.
C12_ResizeTurnsDelta ==
    [][\A id \in SinglePointer, p \in Points :
         LET init == Val(initialSelection)
             q == getCanvasCoordinates(p)
             dx == q[1] - Val(dragStart)[1]
             dy == q[2] - Val(dragStart)[2]
         IN /\ (Resizing /\ HandlePointerMove(id, p)) =>
                  latestSelectionState' =
                      Some(Resized(init, RemapHandle(selectionMode, init.scaleX,
                                                     init.scaleY),
                                   TurnedDelta(init.rotation, dx, dy)))
            /\ (Moving /\ HandlePointerMove(id, p)) =>
                  latestSelectionState' =
                      Some([init EXCEPT !.x = @ + dx, !.y = @ + dy])]_vars

\* a selection turned a quarter whose handle was dragged along the screen's x axis
\* only: the height of the box has changed and its width has not
C12_Witness ==
    /\ Resizing
    /\ Val(initialSelection).rotation = 90
    /\ ~IsNull(latestSelectionState)
    /\ Val(latestSelectionState).height # Val(initialSelection).height
    /\ Val(latestSelectionState).width = Val(initialSelection).width

\* C13: a flip changes the sign of its axis's scale and nothing else of the selection
\* (position, size, rotation, bitmap and the other scale stay), and flipping the
\* flipped selection again on the same axis gives the selection back exactly.
C13_FlipIsInvolution ==
    [][/\ HandleFlipHorizontal =>
             /\ selection' = Some([Val(selection) EXCEPT
                                      !.scaleX = 0 - Val(selection).scaleX])
             /\ FlipHorizontal(Val(selection')) = Val(selection)
       /\ HandleFlipVertical =>
             /\ selection' = Some([Val(selection) EXCEPT
                                      !.scaleY = 0 - Val(selection).scaleY])
             /\ FlipVertical(Val(selection')) = Val(selection)]_vars

\* a turned selection that is flipped on both axes
C13_Witness ==
    /\ ~IsNull(selection)
    /\ Val(selection).scaleX = -1 /\ Val(selection).scaleY = -1
    /\ Val(selection).rotation = 90

\* the quarter turns
QuarterTurns == {0, 90, 180, 270}

\* C14: the rotation of a floating selection is always 0, 90, 180 or 270; a rotate
\* moves it to the next quarter turn (270 to 0) and changes no other field, and
\* three more rotations give the selection back.
C14_RotateIsQuarterTurn ==
    [][/\ ~IsNull(selection') => Val(selection').rotation \in QuarterTurns
       /\ HandleRotate =>
             /\ selection' = Some([Val(selection) EXCEPT
                                      !.rotation = IF @ = 270 THEN 0 ELSE @ + 90])
             /\ Rotate(Rotate(Rotate(Val(selection')))) = Val(selection)]_vars

\* a pasted selection that was turned through to 270 degrees
C14_Witness ==
    /\ ~IsNull(selection) /\ ~IsNull(clipboard)
    /\ Val(selection).dataUrl = Val(clipboard).dataUrl
    /\ Val(clipboard).rotation = 0
    /\ Val(selection).rotation = 270

\* C15: scaleX and scaleY of the floating selection are each +1 or -1, whatever it
\* came from (marquee lift, text, imported image, paste) and however it was flipped,
\* rotated, moved and resized.
C15_ScalesAreUnitFlips ==
    ~IsNull(selection) =>
        /\ Val(selection).scaleX \in {1, -1}
        /\ Val(selection).scaleY \in {1, -1}

\* a mirrored copy, pasted, flipped upside down, turned and resized
C15_Witness ==
    /\ ~IsNull(selection) /\ ~IsNull(clipboard)
    /\ Val(selection).dataUrl = Val(clipboard).dataUrl
    /\ Val(clipboard).scaleX = -1
    /\ Val(selection).scaleX = -1 /\ Val(selection).scaleY = -1
    /\ Val(selection).rotation = 90
    /\ Val(selection).width # Val(clipboard).width

(* ------------------------------ floodFill ------------------------------ *)
\* the pixels of a canvas, the seed of the running call, and its colours
PixelsOf(cv) == (0 .. cv.w - 1) \X (0 .. cv.h - 1)
FillSeed == <<Val(fillCall).startX, Val(fillCall).startY>>
SeedInBounds == FillSeed \in PixelsOf(FillCanvas)
ColourAt(cv, q) == cv.px[q[2] * cv.w + q[1] + 1]
FillColour == hexToRgba(Val(fillCall).fillColorHex)

\* q and r share an edge
Adjacent(q, r) == Abs(q[1] - r[1]) + Abs(q[2] - r[2]) = 1

\* the 4-connected region of pixels of the seed's colour around the seed
RECURSIVE GrowRegion(_, _, _)
GrowRegion(cv, colour, reg) ==
    LET more == {q \in PixelsOf(cv) \ reg :
                    ColourAt(cv, q) = colour /\ \E r \in reg : Adjacent(q, r)}
    IN IF more = {} THEN reg ELSE GrowRegion(cv, colour, reg \cup more)

SeedRegion == GrowRegion(FillCanvas, ColourAt(FillCanvas, FillSeed), {FillSeed})

\* the pixels the call has changed
ChangedPixels ==
    {q \in PixelsOf(FillCanvas) : getPixel(FillResult, q[1], q[2], FillCanvas.w)
                                    # ColourAt(FillCanvas, q)}

\* C16: a finished fill from an in-bounds seed whose colour is not the fill colour
\* has given the fill colour to every pixel of the seed's 4-connected region and
\* has left every other pixel as it was; on the bordered square filled from the
\* centre that is the whole interior, (side - 2) squared pixels.
C16_FillsExactlySeedRegion ==
    (/\ fillPc \in {"returned", "put"}
     /\ SeedInBounds
     /\ ColourAt(FillCanvas, FillSeed) # FillColour)
    => /\ \A q \in PixelsOf(FillCanvas) :
            getPixel(FillResult, q[1], q[2], FillCanvas.w) =
                IF q \in SeedRegion THEN FillColour ELSE ColourAt(FillCanvas, q)
       /\ FillCanvas = BorderedBuffer =>
            Cardinality(ChangedPixels) = (ExampleSide - 2) * (ExampleSide - 2)

\* the bordered square, filled from its centre
C16_Witness ==
    /\ fillPc = "put"
    /\ FillCanvas = BorderedBuffer
    /\ Cardinality(ChangedPixels) = (ExampleSide - 2) * (ExampleSide - 2)
    /\ Cardinality(ChangedPixels) > 1

\* C17: a call whose seed pixel has exactly the fill colour returns without writing
\* the canvas, and the same fill repeated at the same seed on a filled canvas leaves
\* that canvas as the first fill left it.
C17_FillIsIdempotent ==
    /\ (/\ fillPc \in {"loop", "returned", "put"}
        /\ SeedInBounds
        /\ ColourAt(FillCanvas, FillSeed) = FillColour)
       => fillPc = "returned" /\ FillResult = FillCanvas.px
    /\ (fillPc \in {"returned", "put"} /\ Val(fillCall).repeat)
       => FillResult = FillCanvas.px

\* the repeated call has returned on a canvas that the first call had filled
C17_Witness ==
    /\ fillPc = "returned"
    /\ Val(fillCall).repeat
    /\ SeedInBounds
    /\ FillColour \notin {Transparent, Black}
    /\ Cardinality({q \in PixelsOf(FillCanvas) :
                       ColourAt(FillCanvas, q) = FillColour}) > 1

ShownLayers ==
    {i \in DOMAIN CompLayers :
        /\ CompLayers[i].isVisible
        /\ CompLayers[i].id \in DOMAIN CompFrame.layers
        /\ CompFrame.layers[CompLayers[i].id] \notin {EmptyUrl, CorruptUrl}}

LoadedLayers ==
    {i \in DOMAIN CompLayers :
        /\ CompLayers[i].isVisible
        /\ CompLayers[i].id \in DOMAIN CompFrame.layers
        /\ CompFrame.layers[CompLayers[i].id] # EmptyUrl}

\* a set of numbers as an ascending sequence
RECURSIVE Ascending(_)
Ascending(S) ==
    IF S = {} THEN <<>>
    ELSE LET m == CHOOSE x \in S : \A y \in S : x <= y
         IN <<m>> \o Ascending(S \ {m})

\* the background step draws unless a background image is given and is corrupt
BackgroundFails ==
    /\ ~IsNull(Val(compCall).backgroundImage)
    /\ Val(Val(compCall).backgroundImage) = CorruptUrl

BackgroundCanvas ==
    LET blank == NewCanvas(Val(compCall).width, Val(compCall).height)
        image == Val(compCall).backgroundImage
    IN IF BackgroundFails THEN blank
       ELSE IF ~IsNull(image)
       THEN DrawImageScaled(blank, Val(image), blank.w, blank.h)
       ELSE IF Val(compCall).backgroundColor = "transparent" THEN blank
       ELSE FillRect(blank, White)

\* the bitmaps of the layers at the places in order, stacked onto cv
RECURSIVE Stacked(_, _)
Stacked(cv, order) ==
    IF order = <<>> THEN cv
    ELSE Stacked(DrawImage(cv, CompFrame.layers[CompLayers[Head(order)].id], 0, 0),
                 Tail(order))

\* C19: compositeLayers never draws an invisible layer, and when it returns it has
\* drawn the background first (nothing, when a given background image fails to
\* decode) and then exactly the layers that are visible, have a bitmap and decode,
\* in list order from bottom to top; the bitmap it returns is those layers stacked
\* on the background, whatever layers of the list failed to decode.
C19_CompositeDrawsShownLayers ==
    /\ compPc # "idle" =>
          \A p \in DOMAIN compDrawn :
              compDrawn[p] # 0 => CompLayers[compDrawn[p]].isVisible
    /\ compPc = "returned" =>
          /\ compDrawn = (IF BackgroundFails THEN <<>> ELSE <<0>>)
                           \o Ascending(ShownLayers)
          /\ compResult = Some(Stacked(BackgroundCanvas, Ascending(ShownLayers)))

\* a composite has returned with a corrupt layer between two drawn layers and a
\* hidden layer left out
C19_Witness ==
    /\ compPc = "returned"
    /\ Len(CompLayers) = MaxCompLayers
    /\ Cardinality(ShownLayers) = 2
    /\ \E i \in LoadedLayers \ ShownLayers :
          /\ \E j \in ShownLayers : j < i
          /\ \E j \in ShownLayers : j > i
    /\ compDrawn = <<0>> \o Ascending(ShownLayers)
    /\ Val(compResult) # BackgroundCanvas

\* the images that one call loads: the background image, when given, and the
\* loaded layers
LoadedImages ==
    (IF IsNull(Val(compCall).backgroundImage) THEN {} ELSE {0}) \cup LoadedLayers

\* C20: whenever the decodes complete, an image resolves (load or error) only after
\* every image loaded for a lower place has resolved, at most one decode is in
\* flight, so the draws come in stack order, and the call returns only when every
\* loaded image has resolved, with all their draws in the returned bitmap.
C20_DecodesAwaitedInOrder ==
    compPc # "idle" =>
        /\ \A q \in DOMAIN compResolved :
              \A j \in LoadedImages :
                  j < compResolved[q] => \E p \in 1 .. q - 1 : compResolved[p] = j
        /\ \A p, q \in DOMAIN compDrawn : p < q => compDrawn[p] < compDrawn[q]
        /\ Cardinality(compPending) <= 1
        /\ compPc = "returned" =>
              /\ compPending = {}
              /\ {compResolved[p] : p \in DOMAIN compResolved} = LoadedImages
              /\ compResult = compCanvas

\* a call has returned after a background image and three layers resolved one by
\* one, one of them by an error
C20_Witness ==
    /\ compPc = "returned"
    /\ Len(compResolved) = MaxCompLayers + 1
    /\ Len(compDrawn) = MaxCompLayers
    /\ compResolved[1] = 0

(* ---------------------- drawing and gesture mode ---------------------- *)
\* a step of handlePointerMove or handlePointerUp: no press is counted and nothing
\* that only App's handlers, the text input or playback change is changed
PointerMoveOrUp ==
    /\ presses' = presses
    /\ tool' = tool
    /\ historyIndex' = historyIndex
    /\ isPlaying' = isPlaying
    /\ textInput' = textInput
    /\ view' = view

\* C21: a pointer-down that turns gesture mode on, by a second pointer or by the
\* secondary button, leaves no stroke in progress and no text input open; and while
\* no stroke is in progress a pointer move or release neither draws on the canvas
\* nor stores anything.
C21_GestureEntryCancels ==
    [][/\ (presses' = presses + 1 /\ ~isGesture /\ isGesture')
             => (~isDrawing' /\ IsNull(textInput'))
       /\ (~isDrawing /\ PointerMoveOrUp)
             => (canvas' = canvas /\ frames' = frames)]_vars

\* C22: while two pointers hold a gesture, no step changes the tool.
C22_GestureBlocksToolSwitch ==
    [][(isGesture /\ isGesture' /\ Cardinality(pointers) >= 2
        /\ pointers' = pointers)
           => tool' = tool]_vars

\* C23: while a stroke or a shape is in progress, a step that is not a pointer
\* event (it changes App's state: frames, the index, the layer, playback) leaves
\* the live canvas as it was.
C23_StrokeOwnsCanvas ==
    [][(/\ isDrawing /\ isDrawing'
        /\ presses' = presses /\ pressed' = pressed
        /\ appVars' # appVars)
           => canvas' = canvas]_vars

\* C24: while no pointer is down, every inked pixel of the live canvas is in the
\* bitmap stored for the active layer of the frame shown.
C24_ReleasedSurfaceIsStored ==
    (view = "editor" /\ pressed = {} /\ ~IsNull(canvas))
       => \A q \in PixOf(CanvasW, CanvasH) :
             Val(canvas).px[q] # 0
                => PixelAt(StoredLayer(frames, currentFrameIndex, activeLayerId),
                           q[1], q[2]) = Val(canvas).px[q]

\* the canvas with the dot of a tap at q: the pixel inked by the pen, cleared by
\* the eraser
Dotted(cv, q, t) ==
    [cv EXCEPT !.px = [r \in PixOf(cv.w, cv.h) |->
        IF r = q THEN (IF t = "eraser" THEN 0 ELSE InkColor) ELSE cv.px[r]]]

\* C25: with the pen or the eraser on an unlocked, visible active layer, outside
\* playback, the press of the only pointer that is down starts a stroke at the
\* press position, and its release with no movement (and no tool switch) in between
\* draws the dot there and stores the canvas with exactly one layer update.
C25_TapDrawsOneDot ==
    [][\A id \in PointerIds, p \in DrawPoints :
         /\ (/\ tool \in {"pen", "eraser"}
             /\ ~LayerRejects(layers, activeLayerId)
             /\ ~IsNull(canvas)
             /\ pressed = {}
             /\ HandlePointerDown(id, 0, p))
            => (isDrawing' /\ ~hasMoved' /\ drawStart' = Some(p))
         /\ (/\ tool \in {"pen", "eraser"}
             /\ ~LayerRejects(layers, activeLayerId)
             /\ ~IsNull(canvas)
             /\ pressed = {id}
             /\ isDrawing /\ ~hasMoved /\ ~IsNull(drawStart)
             /\ path = MoveTo(Val(drawStart))
             /\ gco = (IF tool = "eraser" THEN "destination-out" ELSE "source-over")
             /\ HandlePointerUp(id, 0, p))
            => /\ edits' = edits + 1
               /\ historyIndex' = historyIndex + 1
               /\ StoredLayer(frames', currentFrameIndex', activeLayerId')
                     = Dotted(Val(canvas), Val(drawStart), tool)
               /\ canvas' = Some(Dotted(Val(canvas), Val(drawStart), tool))]_vars

\* C26: in the editor the pointer table holds exactly the pointers that are down.
C26_TableIsPressedSet ==
    view = "editor" => pointers = pressed

(* ------------------------ CanvasArea: the viewport --------------------- *)

ClampedBelowOnly(s) == Max(s, MinScale)

\* Math.min(Math.max(s, 0.1), 10)
ClampScale(s) == Min(Max(s, MinScale), MaxScale)

\* pointers.current.set(id, {x, y}) and pointers.current.delete(id) on the table
\* with its positions
SetClient(tbl, id, x) ==
    [i \in DOMAIN tbl \cup {id} |-> IF i = id THEN x ELSE tbl[i]]
DelClient(tbl, id) == [i \in DOMAIN tbl \ {id} |-> tbl[i]]

\* Array.from(pointers.current.values()): the first two entries (the table never
\* holds more than the two pointers explored, and both operators are symmetric)
PointA(tbl) == tbl[CHOOSE i \in DOMAIN tbl : \A j \in DOMAIN tbl : i <= j]
PointB(tbl) == tbl[CHOOSE i \in DOMAIN tbl : \A j \in DOMAIN tbl : j <= i]
getDistance(p1, p2) == Abs(p1 - p2)
getCenter(p1, p2) == (p1 + p2) \div 2

\* initialPinchDistance.current && lastPanPoint.current: null and 0 are falsy
PinchArmed ==
    /\ ~IsNull(initialPinchDistance)
    /\ Val(initialPinchDistance) # 0
    /\ ~IsNull(lastPanPoint)

editorVars == <<appVars, ctxVars, pointers, isGesture, isDrawing, hasMoved,
                drawStart, canvasSnapshot, dragStart, initialSelection,
                selectionMode, latestSelectionState, textInput, presses, pressed,
                fillVars, compVars, asyncVars>>
nonViewVars == <<editorVars, exportVars, saveVars, alerts>>

\* handlePointerDown on the viewport refs (lines 830-854), outside playback
ViewPointerDown(id, button, x) ==
    LET tbl == SetClient(clientPointers, id, x)
    IN /\ clientPointers' = tbl
       /\ viewEvents' = viewEvents + 1
       /\ IF button = 2
          THEN /\ panGesture' = TRUE
               /\ lastPanPoint' = Some(x)
               /\ UNCHANGED initialPinchDistance
          ELSE IF Cardinality(DOMAIN tbl) >= 2
          THEN /\ panGesture' = TRUE
               /\ initialPinchDistance' = Some(getDistance(PointA(tbl), PointB(tbl)))
               /\ lastPanPoint' = Some(getCenter(PointA(tbl), PointB(tbl)))
          ELSE /\ panGesture' = FALSE
               /\ UNCHANGED <<initialPinchDistance, lastPanPoint>>
       /\ UNCHANGED <<transform, nonViewVars>>

\* handlePointerMove on the viewport refs (lines 931-968), outside playback;
\* secondary: a mouse with its secondary button held (e.buttons === 2)
ViewPointerMove(id, secondary, x) ==
    LET tbl == SetClient(clientPointers, id, x)
    IN /\ clientPointers' = tbl
       /\ viewEvents' = viewEvents + 1
       /\ IF panGesture /\ secondary
          THEN IF ~IsNull(lastPanPoint)
               THEN /\ transform' = [transform EXCEPT !.x = @ + (x - Val(lastPanPoint))]
                    /\ lastPanPoint' = Some(x)
                    /\ UNCHANGED initialPinchDistance
               ELSE UNCHANGED <<transform, initialPinchDistance, lastPanPoint>>
          ELSE IF panGesture /\ Cardinality(DOMAIN tbl) >= 2 /\ PinchArmed
          THEN LET newDistance == getDistance(PointA(tbl), PointB(tbl))
                   newCenter == getCenter(PointA(tbl), PointB(tbl))
                   \* transform.current.scale * (newDistance / initialPinchDistance)
                   zoomed == (transform.scale * newDistance)
                                 \div Val(initialPinchDistance)
               IN /\ transform' = [scale |-> ClampScale(zoomed),
                                   x |-> transform.x + (newCenter - Val(lastPanPoint))]
                  /\ initialPinchDistance' = Some(newDistance)
                  /\ lastPanPoint' = Some(newCenter)
          ELSE UNCHANGED <<transform, initialPinchDistance, lastPanPoint>>
       /\ UNCHANGED <<panGesture, nonViewVars>>

\* handlePointerUp on the viewport refs (lines 1075-1086)
ViewPointerUp(id, button) ==
    LET tbl == DelClient(clientPointers, id)
    IN /\ clientPointers' = tbl
       /\ viewEvents' = viewEvents + 1
       /\ IF button = 2
          THEN /\ panGesture' = FALSE
               /\ lastPanPoint' = Null
               /\ UNCHANGED initialPinchDistance
          ELSE IF Cardinality(DOMAIN tbl) < 2
          THEN /\ panGesture' = FALSE
               /\ initialPinchDistance' = Null
               /\ lastPanPoint' = Null
          ELSE UNCHANGED <<panGesture, initialPinchDistance, lastPanPoint>>
       /\ UNCHANGED <<transform, nonViewVars>>

\* handleWheel: zoom by -deltaY * 0.001 with ctrl or meta held, pan otherwise
handleWheel(ctrlOrMeta, deltaX, deltaY) ==
    /\ viewEvents' = viewEvents + 1
    /\ transform' = IF ctrlOrMeta
                    THEN [transform EXCEPT !.scale = ClampScale(@ + (-deltaY))]
                    ELSE [transform EXCEPT !.x = @ - deltaX]
    /\ UNCHANGED <<initialPinchDistance, lastPanPoint, clientPointers, panGesture,
                   nonViewVars>>

\* client x positions, wheel deltas and the number of events explored; the pan
\* offset explored
ClientXs == {0, 2, 4}
WheelDeltas == {-20000, -500, 500, 20000}
MaxViewEvents == 6
MaxPan == 4
WithinViewBounds ==
    /\ viewEvents' <= MaxViewEvents
    /\ Abs(transform'.x) <= MaxPan

NextView ==
    \/ \E id \in PointerIds, button \in Buttons, x \in ClientXs :
          ViewPointerDown(id, button, x) /\ WithinViewBounds
    \/ \E id \in PointerIds, secondary \in BOOLEAN, x \in ClientXs :
          ViewPointerMove(id, secondary, x) /\ WithinViewBounds
    \/ \E id \in PointerIds, button \in Buttons :
          ViewPointerUp(id, button) /\ WithinViewBounds
    \/ \E ctrlOrMeta \in BOOLEAN, deltaX \in {-2, 2}, deltaY \in WheelDeltas :
          handleWheel(ctrlOrMeta, deltaX, deltaY) /\ WithinViewBounds

SpecView == Init /\ [][NextView]_vars

\* C27: in every reachable state the viewport scale lies between 0.1 and 10,
\* whatever pinch moves (a distance of 0 between the pointers included) and
\* ctrl/meta wheel events were handled; the pan offset is not constrained.
C27_ScaleWithinLimits ==
    transform.scale >= MinScale /\ transform.scale <= MaxScale

\* two presses and a move that puts both pointers on one spot: the factor 0 was
\* clamped to the scale 0.1
C27_Witness ==
    /\ viewEvents = 3
    /\ transform.scale = MinScale
    /\ initialPinchDistance = Some(0)
    /\ transform.x # 0

(* ---------------------------- App: export ------------------------------ *)
\* the candidate formats of handleExport, best first (the quotes around the codecs
\* of the first one left out)
mimeTypes ==
    <<"video/mp4; codecs=avc1.424028, mp4a.40.2", "video/mp4",
      "video/webm;codecs=vp9,opus", "video/webm">>

\* mimeTypes.find(type => MediaRecorder.isTypeSupported(type)) || ''
SelectMimeType(supported) ==
    IF \E i \in DOMAIN mimeTypes : mimeTypes[i] \in supported
    THEN mimeTypes[CHOOSE i \in DOMAIN mimeTypes :
                      /\ mimeTypes[i] \in supported
                      /\ \A j \in 1 .. i - 1 : mimeTypes[j] \notin supported]
    ELSE ""

\* selectedMimeType.includes('mp4') ? 'MP4' : 'WebM'
FormatOf(mime) == IF mime \in {mimeTypes[1], mimeTypes[2]} THEN "MP4" ELSE "WebM"

AlwaysAFormat(selected) == FALSE

\* !selectedMimeType
NoFormat(selected) == selected = ""

\* Math.round(((i + 1) / n) * 100)
ProgressAt(i, n) == (200 * (i + 1) + n) \div (2 * n)

nonExportVars == <<editorVars, viewVars, saveVars>>

\* a throw inside the try block: the catch logs it and shows the alert, which
\* blocks until it is closed
ExportThrows ==
    /\ alerts' = Append(alerts, "Export failed")
    /\ exportPc' = "alert"

\* new MediaRecorder(stream, ..), mediaRecorder.start() and the first frame drawn,
\* up to the first frame's timeout; recorderThrows: the constructor or start
\* throws, drawThrows: drawImage does
StartRecording(recorderThrows, drawThrows) ==
    /\ exportIndex' = 0
    /\ IF recorderThrows
       THEN recorder' = "none" /\ ExportThrows
       ELSE IF drawThrows
       THEN recorder' = "recording" /\ ExportThrows
       ELSE recorder' = "recording" /\ exportPc' = "frames" /\ UNCHANGED alerts

\* handleExport (the editor header's Export button) up to its first await.  It
\* returns at once while an export runs or with no frame (no step); supported: the formats MediaRecorder supports;
\* hasContext: getContext('2d') gives a context
handleExport(supported, hasContext) ==
    /\ view = "editor"
    /\ exportPc # "alert"
    /\ ~isExporting /\ frames # <<>>
    /\ exports' = exports + 1
    /\ LET selectedMimeType == SelectMimeType(supported)
       IN IF NoFormat(selectedMimeType)
          THEN /\ alerts' = Append(alerts, "No supported video format.")
               /\ UNCHANGED <<isExporting, exportProgress, exportFormat, exportPc,
                              exportCall, exportCanvas, audioContext, recorder,
                              exportIndex, exportTrack>>
          ELSE /\ isExporting' = TRUE
               /\ exportProgress' = 0
               /\ exportFormat' = FormatOf(selectedMimeType)
               /\ exportCall' = Some([mime |-> selectedMimeType, n |-> Len(frames),
                                      tracks |-> audioTracks])
               /\ exportCanvas' = "attached"
               /\ audioContext' = "none"
               /\ recorder' = "none"
               /\ exportIndex' = 0
               /\ exportTrack' = 0
               /\ IF hasContext
                  THEN exportPc' = "prerender" /\ UNCHANGED alerts
                  ELSE ExportThrows
    /\ UNCHANGED <<audioTracks, downloads, nonExportVars>>

\* the frames' composites and images are there (or one of them failed): the stream
\* is captured and, with audio tracks, the audio context and its destination made
ExportPrerendered(rejected, contextThrows, throws, drawThrows) ==
    /\ exportPc = "prerender"
    /\ IF rejected
       THEN ExportThrows /\ UNCHANGED <<audioContext, recorder, exportIndex, exportTrack>>
       ELSE IF Val(exportCall).tracks > 0
       THEN /\ UNCHANGED <<recorder, exportIndex>>
            /\ IF contextThrows
               THEN ExportThrows /\ UNCHANGED <<audioContext, exportTrack>>
               ELSE /\ audioContext' = "open"
                    /\ IF throws
                       THEN ExportThrows /\ UNCHANGED exportTrack
                       ELSE exportPc' = "audio" /\ exportTrack' = 1 /\ UNCHANGED alerts
       ELSE /\ StartRecording(throws, drawThrows)
            /\ UNCHANGED <<audioContext, exportTrack>>
    /\ UNCHANGED <<isExporting, exportProgress, exportFormat, audioTracks, exportCall,
                   exportCanvas, exports, downloads, nonExportVars>>

\* an audio element can play through (or failed to load): it is connected to the
\* destination and played, and the next one is loaded or the recorder started
ExportTrackLoaded(sourceThrows, recorderThrows, drawThrows) ==
    /\ exportPc = "audio"
    /\ IF sourceThrows
       THEN ExportThrows /\ UNCHANGED <<recorder, exportIndex, exportTrack>>
       ELSE IF exportTrack < Val(exportCall).tracks
       THEN /\ exportTrack' = exportTrack + 1
            /\ UNCHANGED <<exportPc, alerts, recorder, exportIndex>>
       ELSE /\ StartRecording(recorderThrows, drawThrows)
            /\ UNCHANGED exportTrack
    /\ UNCHANGED <<isExporting, exportProgress, exportFormat, audioTracks, exportCall,
                   exportCanvas, audioContext, exports, downloads, nonExportVars>>

\* a frame's timeout is over: the progress is set and the next frame drawn
ExportFrameShown(drawThrows) ==
    /\ exportPc = "frames"
    /\ exportProgress' = ProgressAt(exportIndex, Val(exportCall).n)
    /\ IF exportIndex + 1 < Val(exportCall).n
       THEN /\ exportIndex' = exportIndex + 1
            /\ IF drawThrows THEN ExportThrows ELSE UNCHANGED <<exportPc, alerts>>
       ELSE exportPc' = "tail" /\ UNCHANGED <<exportIndex, alerts>>
    /\ UNCHANGED <<isExporting, exportFormat, audioTracks, exportCall, exportCanvas,
                   audioContext, recorder, exportTrack, exports, downloads,
                   nonExportVars>>

\* the last half second is over: mediaRecorder.stop()
ExportStop(stopThrows) ==
    /\ exportPc = "tail"
    /\ IF stopThrows
       THEN ExportThrows /\ UNCHANGED recorder
       ELSE recorder' = "stopped" /\ exportPc' = "stopping" /\ UNCHANGED alerts
    /\ UNCHANGED <<isExporting, exportProgress, exportFormat, audioTracks, exportCall,
                   exportCanvas, audioContext, exportIndex, exportTrack, exports,
                   downloads, nonExportVars>>

\* audioContext.close() and document.body.removeChild(exportCanvas), each guarded
Closed(ac) == IF ac = "open" THEN "closed" ELSE ac
Removed(cv) == IF cv = "attached" THEN "detached" ELSE cv

\* mediaRecorder.onstop: the file is downloaded and the export torn down
RecorderOnstop ==
    /\ exportPc = "stopping"
    /\ downloads' = downloads + 1
    /\ audioContext' = Closed(audioContext)
    /\ exportCanvas' = Removed(exportCanvas)
    /\ isExporting' = FALSE
    /\ exportPc' = "idle"
    /\ UNCHANGED <<exportProgress, exportFormat, audioTracks, exportCall, recorder,
                   exportIndex, exportTrack, exports, alerts, nonExportVars>>

\* the rest of the catch block, run when the alert is closed
ExportCatch ==
    /\ exportPc = "alert"
    /\ exportCanvas' = Removed(exportCanvas)
    /\ audioContext' = Closed(audioContext)
    /\ isExporting' = FALSE
    /\ exportPc' = "idle"
    /\ UNCHANGED <<exportProgress, exportFormat, audioTracks, exportCall, recorder,
                   exportIndex, exportTrack, exports, downloads, alerts,
                   nonExportVars>>

\* handleAddAudioTrack and handleRemoveAudioTrack
handleAddAudioTrack ==
    /\ view = "editor"
    /\ exportPc # "alert"
    /\ audioTracks' = audioTracks + 1
    /\ UNCHANGED <<isExporting, exportProgress, exportFormat, exportPc, exportCall,
                   exportCanvas, audioContext, recorder, exportIndex, exportTrack,
                   exports, downloads, alerts, nonExportVars>>

handleRemoveAudioTrack ==
    /\ view = "editor"
    /\ exportPc # "alert"
    /\ audioTracks > 0
    /\ audioTracks' = audioTracks - 1
    /\ UNCHANGED <<isExporting, exportProgress, exportFormat, exportPc, exportCall,
                   exportCanvas, audioContext, recorder, exportIndex, exportTrack,
                   exports, downloads, alerts, nonExportVars>>

\* the sets of supported formats, the audio tracks and the handleExport calls
\* explored
SupportedSets == {{}, {mimeTypes[4]}, {mimeTypes[2], mimeTypes[3]}}
MaxTracks == 2
MaxExports == 2
WithinExportBounds ==
    /\ exports' <= MaxExports
    /\ audioTracks' <= MaxTracks
    /\ Len(frames') <= MaxFrames
    /\ edits' <= MaxEdits

NextExport ==
    \/ \E data \in SavedProjects : LoadProject(data) /\ WithinExportBounds
    \/ exportPc # "alert" /\ AddFrame /\ WithinExportBounds
    \/ handleAddAudioTrack /\ WithinExportBounds
    \/ handleRemoveAudioTrack /\ WithinExportBounds
    \/ \E supported \in SupportedSets, hasContext \in BOOLEAN :
          handleExport(supported, hasContext) /\ WithinExportBounds
    \/ \E rejected, contextThrows, throws, drawThrows \in BOOLEAN :
          ExportPrerendered(rejected, contextThrows, throws, drawThrows)
              /\ WithinExportBounds
    \/ \E sourceThrows, recorderThrows, drawThrows \in BOOLEAN :
          ExportTrackLoaded(sourceThrows, recorderThrows, drawThrows)
              /\ WithinExportBounds
    \/ \E drawThrows \in BOOLEAN : ExportFrameShown(drawThrows) /\ WithinExportBounds
    \/ \E stopThrows \in BOOLEAN : ExportStop(stopThrows) /\ WithinExportBounds
    \/ RecorderOnstop /\ WithinExportBounds
    \/ ExportCatch /\ WithinExportBounds

SpecExport == Init /\ [][NextExport]_vars

\* C28: when an export that has started fails, the off-screen canvas is detached
\* and the audio context closed by the time the failure is shown to the user, and
\* once the failure has been handled no export canvas is attached and isExporting
\* is false.
C28_TeardownBeforeFailureShown ==
    [][/\ (alerts' # alerts /\ alerts'[Len(alerts')] = "Export failed")
             => (exportCanvas' # "attached" /\ audioContext' # "open")
       /\ (exportPc = "alert" /\ exportPc' = "idle")
             => (exportCanvas' # "attached" /\ ~isExporting')]_vars

\* C29: a handleExport call (no export running, at least one frame) that finds no
\* supported format reports it and changes nothing else: no canvas, no audio
\* context, isExporting still false, the editor state as it was.
C29_NoFormatAbortsCleanly ==
    [][\A supported \in SupportedSets, hasContext \in BOOLEAN :
          (/\ \A i \in DOMAIN mimeTypes : mimeTypes[i] \notin supported
           /\ handleExport(supported, hasContext))
          => /\ alerts' = Append(alerts, "No supported video format.")
             /\ ~isExporting'
             /\ exportCanvas' = exportCanvas /\ exportCanvas' # "attached"
             /\ audioContext' = audioContext /\ audioContext' # "open"
             /\ exportPc' = "idle"
             /\ UNCHANGED <<exportProgress, exportFormat, exportCall, recorder,
                            audioTracks, editorVars>>]_vars

\* an export with a frame and an audio track was asked for with no format
\* supported, after an earlier export ran to its download
C29_Witness ==
    /\ alerts # <<>>
    /\ alerts[Len(alerts)] = "No supported video format."
    /\ exports = 2 /\ downloads = 1
    /\ audioTracks > 0 /\ frames # <<>>
    /\ exportPc = "idle" /\ ~isExporting

(* ----------------------------- App: save ------------------------------- *)
SavedMessage == "Project Saved!"
FailedMessage == "Failed to save. Storage might be full."

\* localStorage.setItem(`clipanim_project_${id}`, JSON.stringify(projectData))
SetProject(st, id, data) ==
    [st EXCEPT !.projects =
        [k \in DOMAIN st.projects \cup {id} |-> IF k = id THEN data ELSE st.projects[k]]]

\* localStorage.setItem('clipanim_meta', JSON.stringify(newProjectList))
SetMeta(st, list) == [st EXCEPT !.meta = Some(list)]

\* the new project list: the project's entry replaced, or put in front
NewProjectList(list, newMeta) ==
    IF \E i \in DOMAIN list : list[i].id = newMeta.id
    THEN [i \in DOMAIN list |-> IF list[i].id = newMeta.id THEN newMeta ELSE list[i]]
    ELSE <<newMeta>> \o list

\* compositeLayers(frames[0], layers, width, height, '#ffffff', backgroundImage)
\* with no background image, every layer image decoded
Thumbnail(frame, ls) ==
    DrawLayers(FillRect(NewCanvas(CanvasW, CanvasH), White), frame, ls, 1)

nonSaveVars == <<editorVars, viewVars, exportVars>>

\* steps 3 and 4 of saveProject and its catch block; recordFails and indexFails:
\* localStorage.setItem throws (the quota is exceeded) for the project record and
\* for the project index; now: Date.now()
SaveWrites(call, thumb, now, recordFails, indexFails) ==
    LET newMeta == [id |-> call.data.id, lastModified |-> now, thumbnailUrl |-> thumb]
        newProjectList == NewProjectList(call.savedProjects, newMeta)
        withRecord == SetProject(storage, call.data.id, call.data)
    IN IF recordFails
       THEN /\ alerts' = Append(alerts, FailedMessage)
            /\ UNCHANGED <<storage, savedProjects>>
       ELSE /\ savedProjects' = newProjectList
            /\ IF indexFails
               THEN /\ storage' = withRecord
                    /\ alerts' = Append(alerts, FailedMessage)
               ELSE /\ storage' = SetMeta(withRecord, newProjectList)
                    /\ alerts' = Append(alerts, SavedMessage)

\* saveProject (the header's Save button, Ctrl+S) up to its await: with no frame
\* there is no thumbnail to wait for and the writes follow at once
saveProject(recordFails, indexFails) ==
    /\ view = "editor"
    /\ savePc = "idle"
    /\ exportPc # "alert"
    /\ saveCalls' = saveCalls + 1
    /\ LET call == [data |-> [id |-> projectId, layers |-> layers, frames |-> frames],
                    savedProjects |-> savedProjects]
       IN IF frames # <<>>
          THEN /\ savePc' = "thumb"
               /\ saveCall' = Some(call)
               /\ UNCHANGED <<storage, savedProjects, alerts>>
          ELSE /\ SaveWrites(call, EmptyUrl, saveCalls + 1, recordFails, indexFails)
               /\ UNCHANGED <<savePc, saveCall>>
    /\ UNCHANGED <<projectId, nonSaveVars>>

\* the thumbnail's composite has resolved: the writes
SaveThumbnailResolved(recordFails, indexFails) ==
    /\ savePc = "thumb"
    /\ exportPc # "alert"
    /\ LET call == Val(saveCall)
       IN SaveWrites(call, Thumbnail(call.data.frames[1], call.data.layers),
                     saveCalls, recordFails, indexFails)
    /\ savePc' = "idle"
    /\ saveCall' = Null
    /\ UNCHANGED <<projectId, saveCalls, nonSaveVars>>

\* setProjectId(crypto.randomUUID()) of createNewProject: the next unused id
NewProjectId ==
    /\ view = "menu"
    /\ projectId' = projectId + 1
    /\ UNCHANGED <<savedProjects, storage, savePc, saveCall, saveCalls, alerts,
                   nonSaveVars>>

\* the saveProject calls and the project ids explored
MaxSaves == 3
MaxProjectId == 2
WithinSaveBounds ==
    /\ saveCalls' <= MaxSaves
    /\ projectId' <= MaxProjectId
    /\ Len(frames') <= MaxFrames
    /\ edits' <= MaxEdits

NextSave ==
    \/ NewProjectId /\ WithinSaveBounds
    \/ CreateNewProject /\ WithinSaveBounds
    \/ BackToMenu /\ WithinSaveBounds
    \/ AddFrame /\ WithinSaveBounds
    \/ \E index \in 0 .. MaxFrames - 1 : DeleteFrame(index) /\ WithinSaveBounds
    \/ \E recordFails, indexFails \in BOOLEAN :
          saveProject(recordFails, indexFails) /\ WithinSaveBounds
    \/ \E recordFails, indexFails \in BOOLEAN :
          SaveThumbnailResolved(recordFails, indexFails) /\ WithinSaveBounds

SpecSave == Init /\ [][NextSave]_vars

\* C30: a saveProject whose storage write fails reports the failure and leaves
\* localStorage (the project record and the project index) and the in-memory
\* state, the project list included, as they were before it.
C30_FailedSaveChangesNothing ==
    [][(alerts' # alerts /\ alerts'[Len(alerts')] = FailedMessage)
          => /\ storage' = storage
             /\ savedProjects' = savedProjects
             /\ UNCHANGED <<projectId, editorVars>>]_vars

(* ---------------------- drawing and gesture mode ---------------------- *)
\* C32: gesture mode and an active stroke are never on together, whatever pointer
\* presses, moves and releases (leave and cancel run the release handler) were
\* handled.
C32_GestureExcludesStroke == ~(isGesture /\ isDrawing)

\* a pen stroke that had moved was interrupted by a second pointer
C32_Witness ==
    /\ isGesture /\ ~isDrawing
    /\ Cardinality(pressed) = 2
    /\ hasMoved /\ ~IsNull(drawStart)
    /\ tool = "pen"

(* ------------------- projects and the layer list ---------------------- *)
\* Projects opened and left again, with layers added, removed and selected
NextLayers ==
    \/ CreateNewProject /\ WithinBounds
    \/ \E data \in SavedProjects : LoadProject(data) /\ WithinBounds
    \/ BackToMenu /\ WithinBounds
    \/ AddLayer /\ WithinBounds
    \/ \E id \in IdRange : RemoveLayer(id) /\ WithinBounds
    \/ \E id \in IdRange : SelectLayer(id) /\ WithinBounds

SpecLayers == Init /\ [][NextLayers]_vars

\* C37: the active layer id always names a layer of the current layer list, after
\* any sequence of addLayer, removeLayer, layer selection, createNewProject and
\* loadProject.
C37_ActiveLayerExists == activeLayerId \in LayerIds(layers)

SeedOutside ==
    LET c == Val(fillCall)
    IN \/ c.startX < 0 \/ c.startX >= c.canvas.w
       \/ c.startY < 0 \/ c.startY >= c.canvas.h

\* C40: a floodFill whose seed lies outside the buffer (x < 0, x >= width, y < 0 or
\* y >= height) leaves every pixel of the buffer as it was.
C40_OutsideSeedChangesNothing ==
    (fillPc # "idle" /\ SeedOutside) => Val(fillData) = FillCanvas.px

(* ------------------ one selection arriving on another ------------------ *)
\* A lifted region, a committed text, imported images and pastes, each arriving
\* whether or not a selection is floating
WithinReplaceBounds ==
    /\ edits' <= MaxTransformEdits
    /\ presses' <= MaxResizePresses

NextReplace ==
    \/ \E data \in SavedProjects : LoadProject(data) /\ WithinReplaceBounds
    \/ \E t \in {"select", "text"} : SetTool(t) /\ WithinReplaceBounds
    \/ \E id \in SinglePointer :
           PointerDownSelect(id, <<0, 0>>) /\ WithinReplaceBounds
    \/ \E id \in SinglePointer :
           PointerDownText(id, TextPoint) /\ WithinReplaceBounds
    \/ TypeText(<<"a">>) /\ WithinReplaceBounds
    \/ TextEnter /\ WithinReplaceBounds
    \/ \E img \in {i \in ImportedImages : i.w = i.h} :
           HandleImportImage(img) /\ WithinReplaceBounds
    \/ HandleCopy /\ WithinReplaceBounds
    \/ PasteLandsOnPixels /\ HandlePaste /\ WithinReplaceBounds
    \/ HandleDeleteSelection /\ WithinReplaceBounds
    \/ \E id \in SinglePointer, p \in {FullCanvas} :
           id \in pointers /\ HandlePointerUp(id, 0, p) /\ WithinReplaceBounds

SpecReplace == Init /\ [][NextReplace]_vars

\* C35: when a floating selection is replaced by one with other pixels (a paste, an
\* imported image, a committed text, a new lift), the step has committed the
\* replaced selection to the active layer of the current frame.
C35_ReplacedSelectionIsCommitted ==
    [][(/\ ~IsNull(selection) /\ ~IsNull(selection')
        /\ Val(selection').dataUrl # Val(selection).dataUrl)
          => frames' = handleSelectionCommit(frames, currentFrameIndex, layers,
                           history, historyIndex, activeLayerId, Val(selection),
                           edits + 1).frames]_vars

(* ------------------- thumbnails, layers and undo ----------------------- *)
\* A loaded or new project edited by pen taps, frames and layers added and layers
\* removed, with layers hidden and shown and edits undone and redone
MaxThumbEdits == 2
MaxThumbPresses == 1
WithinThumbBounds ==
    /\ edits' <= MaxThumbEdits
    /\ presses' <= MaxThumbPresses
    /\ Len(frames') <= MaxFrames
    /\ Len(layers') <= MaxLayers

NextThumbs ==
    \/ CreateNewProject /\ WithinThumbBounds
    \/ \E data \in SavedProjects : LoadProject(data) /\ WithinThumbBounds
    \/ \E id \in SinglePointer :
           id \notin pointers /\ PointerDownStroke(id, TapPoint) /\ WithinThumbBounds
    \/ \E id \in SinglePointer :
           id \in pointers /\ HandlePointerUp(id, 0, TapPoint) /\ WithinThumbBounds
    \/ \E id \in IdRange : ToggleLayerVisibility(id) /\ WithinThumbBounds
    \/ AddLayer /\ WithinThumbBounds
    \/ \E id \in IdRange : RemoveLayer(id) /\ WithinThumbBounds
    \/ AddFrame /\ WithinThumbBounds
    \/ Undo /\ WithinThumbBounds
    \/ Redo /\ WithinThumbBounds

SpecThumbs == Init /\ [][NextThumbs]_vars

\* C31: with no thumbnail regeneration pending, every frame's cached thumbnail is
\* the composite of the frame's layer bitmaps under the current layer list and
\* visibility flags.
C31_ThumbnailsAreComposites ==
    \A i \in DOMAIN frames :
        frames[i].thumbnailUrl = compositeLayers(frames[i], layers, CanvasW, CanvasH)

(* ------------- App: the async handlers, suspended at an await ----------- *)
\* Each async handler of App runs to its first await when it is called and goes
\* on, when the awaited decode or composite resolves, with the state its closure
\* captured at the render it was created in: a handler that resolves late reads
\* the frames, history and indices of that earlier render.
Closure ==
    [frames |-> frames, currentFrameIndex |-> currentFrameIndex, layers |-> layers,
     history |-> history, historyIndex |-> historyIndex,
     activeLayerId |-> activeLayerId, selection |-> selection]

\* a suspended call: its number, the handler, the await it is at, its closure
\* and its locals (handleUpdateLayer's arguments, addFrame's new frame id,
\* handleSelectionCommit's tempCanvas)
PendingOp(op, kind, stage, closure, layerId, dataUrl, id, tempCanvas) ==
    [op |-> op, kind |-> kind, stage |-> stage, closure |-> closure,
     layerId |-> layerId, dataUrl |-> dataUrl, id |-> id, tempCanvas |-> tempCanvas]

\* what the async handlers leave alone: CanvasArea's refs and the other machines
asyncRest == <<pointers, isGesture, isDrawing, hasMoved, drawStart, canvasSnapshot,
               dragStart, initialSelection, selectionMode, textInput, presses,
               pressed, fillVars, compVars, viewVars, exportVars, saveVars, alerts>>

\* the bitmaps saveCanvas hands to onUpdateLayer: the layer with one inked pixel
SavedBitmaps ==
    {[NewCanvas(CanvasW, CanvasH) EXCEPT !.px[p] = InkColor] :
        p \in {<<0, 0>>, <<1, 1>>}}

\* the update recorded as issued: the frame and layer it is for and its bitmap
IssuedUpdate(op, closure, layerId, dataUrl) ==
    [op |-> op, frameId |-> closure.frames[closure.currentFrameIndex + 1].id,
     layerId |-> layerId, dataUrl |-> dataUrl]

\* handleUpdateLayer(layerId, dataUrl), called by saveCanvas with the active
\* layer, up to its await of compositeLayers
UpdateLayerCalled(layerId, dataUrl) ==
    /\ CanvasMounted(view, frames, currentFrameIndex, layers, activeLayerId)
    /\ layerId = activeLayerId
    /\ opCount' = opCount + 1
    /\ pendingOps' = pendingOps \cup
           {PendingOp(opCount + 1, "update", "composite", Closure, layerId,
                      Some(dataUrl), 0, Null)}
    /\ issued' = Append(issued, IssuedUpdate(opCount + 1, Closure, layerId, dataUrl))
    /\ UNCHANGED <<appVars, ctxVars, latestSelectionState, asyncRest>>

\* handleUpdateLayer after its await: the frame of the closure's frames replaced,
\* pushed on the closure's history
UpdateLayerResolved(o) ==
    /\ o \in pendingOps
    /\ o.kind = "update"
    /\ ApplyUpdate(handleUpdateLayer(o.closure.frames, o.closure.currentFrameIndex,
                       o.closure.layers, o.closure.history, o.closure.historyIndex,
                       o.layerId, Val(o.dataUrl), edits + 1))
    /\ pendingOps' = pendingOps \ {o}
    /\ UNCHANGED <<opCount, issued>>
    /\ UNCHANGED <<view, layers, activeLayerId, currentFrameIndex, isPlaying, tool,
                   selection, nextId, clipboard, latestSelectionState, asyncRest>>
    /\ Render(canvas, gco, path)

\* addFrame up to its await of compositeLayers: the blank frame is built
AddFrameCalled ==
    /\ view = "editor"
    /\ opCount' = opCount + 1
    /\ pendingOps' = pendingOps \cup
           {PendingOp(opCount + 1, "addFrame", "composite", Closure, 0, Null,
                      nextId, Null)}
    /\ nextId' = nextId + 1
    /\ UNCHANGED <<view, layers, activeLayerId, frames, history, historyIndex,
                   currentFrameIndex, isPlaying, tool, selection, clipboard, edits,
                   ctxVars, latestSelectionState, issued, asyncRest>>

\* addFrame after its await: the frame spliced into the closure's frames, and the
\* index set to the closure's index plus one
AddFrameResolved(o) ==
    /\ o \in pendingOps
    /\ o.kind = "addFrame"
    /\ LET blankF == createBlankFrame(o.closure.layers, CanvasW, CanvasH, o.id,
                                      edits + 1)
           newFrame == [blankF EXCEPT !.thumbnailUrl =
               compositeLayers(blankF, o.closure.layers, CanvasW, CanvasH)]
       IN ApplyUpdate(updateFramesWithHistory(o.closure.history,
               o.closure.historyIndex,
               InsertAt(o.closure.frames, o.closure.currentFrameIndex + 1, newFrame)))
    /\ currentFrameIndex' = o.closure.currentFrameIndex + 1
    /\ pendingOps' = pendingOps \ {o}
    /\ UNCHANGED <<opCount, issued>>
    /\ UNCHANGED <<view, layers, activeLayerId, isPlaying, tool, selection, nextId,
                   clipboard, latestSelectionState, asyncRest>>
    /\ Render(canvas, gco, path)

\* toggleLayerVisibility(id): the layers are set and regenerateThumbnails(frames,
\* newLayers) runs to its await
ToggleLayerVisibilityCalled(id) ==
    /\ view = "editor"
    /\ id \in LayerIds(layers)
    /\ LET newLayers == [i \in DOMAIN layers |->
               IF layers[i].id = id
               THEN [layers[i] EXCEPT !.isVisible = ~@]
               ELSE layers[i]]
       IN /\ layers' = newLayers
          /\ pendingOps' = pendingOps \cup
                 {PendingOp(opCount + 1, "regenerate", "composite",
                            [Closure EXCEPT !.layers = newLayers], 0, Null, 0, Null)}
    /\ opCount' = opCount + 1
    /\ UNCHANGED <<view, activeLayerId, frames, history, historyIndex,
                   currentFrameIndex, isPlaying, tool, selection, nextId, clipboard,
                   edits, latestSelectionState, issued, asyncRest>>
    /\ Render(canvas, gco, path)

\* regenerateThumbnails after its await: setFrames(updated)
RegenerateResolved(o) ==
    /\ o \in pendingOps
    /\ o.kind = "regenerate"
    /\ frames' = regenerateThumbnails(o.closure.frames, o.closure.layers)
    /\ pendingOps' = pendingOps \ {o}
    /\ UNCHANGED <<opCount, issued>>
    /\ UNCHANGED <<view, layers, activeLayerId, history, historyIndex,
                   currentFrameIndex, isPlaying, tool, selection, nextId, clipboard,
                   edits, latestSelectionState, asyncRest>>
    /\ Render(canvas, gco, path)

\* handleSelectionCommit up to its first await: the decode of the base layer's
\* bitmap when the layer has one, else the decode of the selection's bitmap
SelectionCommitCalled ==
    /\ view = "editor"
    /\ HasCurrentFrame(frames, currentFrameIndex)
    /\ ~IsNull(selection)
    /\ opCount' = opCount + 1
    /\ pendingOps' = pendingOps \cup
           {PendingOp(opCount + 1, "commit",
                      IF activeLayerId \in DOMAIN frames[currentFrameIndex + 1].layers
                      THEN "base" ELSE "selection",
                      Closure, activeLayerId, Null, 0,
                      Some(NewCanvas(CanvasW, CanvasH)))}
    /\ UNCHANGED <<appVars, ctxVars, latestSelectionState, issued, asyncRest>>

\* the base layer's image fires load: it is drawn and drawSelectionOntoCanvas
\* runs to its await
CommitBaseLoaded(o) ==
    /\ o \in pendingOps
    /\ o.kind = "commit"
    /\ o.stage = "base"
    /\ pendingOps' = (pendingOps \ {o}) \cup
           {[o EXCEPT !.stage = "selection",
                      !.tempCanvas = Some(DrawImage(Val(o.tempCanvas),
                          o.closure.frames[o.closure.currentFrameIndex + 1]
                              .layers[o.closure.activeLayerId], 0, 0))]}
    /\ UNCHANGED <<appVars, ctxVars, latestSelectionState, opCount, issued, asyncRest>>

\* the selection's image fires load: it is drawn, handleUpdateLayer of the
\* commit's render is called with the result and runs to its await, and the
\* selection is set to null
CommitSelectionLoaded(o) ==
    /\ o \in pendingOps
    /\ o.kind = "commit"
    /\ o.stage = "selection"
    /\ LET dataUrl == drawSelectionOntoCanvas(Val(o.tempCanvas),
                                              Val(o.closure.selection))
       IN /\ pendingOps' = (pendingOps \ {o}) \cup
                 {PendingOp(opCount + 1, "update", "composite", o.closure,
                            o.closure.activeLayerId, Some(dataUrl), 0, Null)}
          /\ issued' = Append(issued, IssuedUpdate(opCount + 1, o.closure,
                                          o.closure.activeLayerId, dataUrl))
    /\ opCount' = opCount + 1
    /\ selection' = Null
    /\ UNCHANGED <<view, layers, activeLayerId, frames, history, historyIndex,
                   currentFrameIndex, isPlaying, tool, nextId, clipboard, edits,
                   latestSelectionState, asyncRest>>
    /\ Render(canvas, gco, path)

\* the image a commit waits for fires error: neither Image has an onerror, so the
\* promise it is wrapped in is never settled and the call stays suspended
CommitDecodeFailed(o) ==
    /\ o \in pendingOps
    /\ o.kind = "commit"
    /\ o.stage \in {"base", "selection"}
    /\ pendingOps' = (pendingOps \ {o}) \cup {[o EXCEPT !.stage = "unsettled"]}
    /\ UNCHANGED <<appVars, ctxVars, latestSelectionState, opCount, issued, asyncRest>>

\* the selections CanvasArea creates: a region lifted from the top-left corner
\* and a committed text
CreatedSelections ==
    {[x |-> 0, y |-> 0, width |-> MinSelectionSize + 1,
      height |-> MinSelectionSize + 1,
      dataUrl |-> NewCanvas(MinSelectionSize + 1, MinSelectionSize + 1),
      rotation |-> 0, scaleX |-> 1, scaleY |-> 1],
     Val(commitText(Some([x |-> 0, y |-> 3, value |-> <<"a">>])))}

\* handleSelectionCreate(newSelection)
handleSelectionCreate(newSelection) ==
    /\ view = "editor"
    /\ selection' = Some(newSelection)
    /\ latestSelectionState' = selection'
    /\ UNCHANGED <<view, layers, activeLayerId, frames, history, historyIndex,
                   currentFrameIndex, isPlaying, tool, nextId, clipboard, edits,
                   ctxVars, asyncVars, asyncRest>>

MaxOps == 2
MaxAsyncEdits == 3

\* the part of the session explored: calls of the async handlers and edits
WithinAsyncBounds ==
    /\ opCount' <= MaxOps
    /\ edits' <= MaxAsyncEdits
    /\ Len(frames') <= MaxFrames


(* ------------ frame operations among suspended async handlers ---------- *)
NextAsyncFrames ==
    \/ CreateNewProject /\ WithinAsyncBounds
    \/ \E d \in SavedBitmaps :
           UpdateLayerCalled(activeLayerId, d) /\ WithinAsyncBounds
    \/ \E o \in pendingOps : UpdateLayerResolved(o) /\ WithinAsyncBounds
    \/ AddFrameCalled /\ WithinAsyncBounds
    \/ \E o \in pendingOps : AddFrameResolved(o) /\ WithinAsyncBounds
    \/ \E i \in 0 .. MaxFrames : CopyFrame(i) /\ WithinAsyncBounds
    \/ \E i \in 0 .. MaxFrames : DeleteFrame(i) /\ WithinAsyncBounds
    \/ AnimateTick /\ WithinAsyncBounds
    \/ \E i \in 0 .. MaxFrames : HandleSelectFrame(i) /\ WithinAsyncBounds
    \/ Undo /\ WithinAsyncBounds
    \/ Redo /\ WithinAsyncBounds
    \/ TogglePlay /\ WithinAsyncBounds

SpecAsyncFrames == Init /\ [][NextAsyncFrames]_vars

\* C38: whenever the frame list is non-empty, the current frame index names one of
\* its frames, after every operation and for every order in which the suspended
\* addFrame and layer-update calls resolve among the other operations
C38_FrameIndexInRange ==
    Len(frames) > 0 => (0 <= currentFrameIndex /\ currentFrameIndex < Len(frames))


(* ----------------- layer updates among suspended handlers -------------- *)
NextAsyncUpdates ==
    \/ CreateNewProject /\ WithinAsyncBounds
    \/ \E d \in SavedBitmaps :
           UpdateLayerCalled(activeLayerId, d) /\ WithinAsyncBounds
    \/ \E o \in pendingOps : UpdateLayerResolved(o) /\ WithinAsyncBounds
    \/ AddFrameCalled /\ WithinAsyncBounds
    \/ \E o \in pendingOps : AddFrameResolved(o) /\ WithinAsyncBounds
    \/ \E id \in LayerIds(layers) :
           ToggleLayerVisibilityCalled(id) /\ WithinAsyncBounds
    \/ \E o \in pendingOps : RegenerateResolved(o) /\ WithinAsyncBounds
    \/ \E i \in 0 .. MaxFrames : HandleSelectFrame(i) /\ WithinAsyncBounds

SpecAsyncUpdates == Init /\ [][NextAsyncUpdates]_vars

\* the issued update is the last one issued for its frame and layer
LastIssued(i) ==
    \A j \in DOMAIN issued :
        (issued[j].frameId = issued[i].frameId /\ issued[j].layerId = issued[i].layerId)
            => j <= i

\* the stored frames hold the update's bitmap in its frame and layer
Stored(u) ==
    \E k \in DOMAIN frames :
        /\ frames[k].id = u.frameId
        /\ u.layerId \in DOMAIN frames[k].layers
        /\ frames[k].layers[u.layerId] = u.dataUrl

\* C33: once every suspended call has completed, the stored frames hold every
\* layer update that was issued (the last one issued for each frame and layer),
\* also when a second update, an addFrame or a thumbnail regeneration was issued
\* before the first update completed; no frame is deleted and nothing is undone
\* in the behaviours checked
C33_IssuedUpdatesStored ==
    pendingOps = {} => \A i \in DOMAIN issued : LastIssued(i) => Stored(issued[i])


(* ------------------ commits among suspended handlers ------------------- *)
\* an image of a suspended commit fires load or error
CommitImageSettles ==
    \E o \in pendingOps :
        CommitBaseLoaded(o) \/ CommitSelectionLoaded(o) \/ CommitDecodeFailed(o)

MaxCommitOps == 4

\* the part of the session explored: each suspended commit leaves room for the
\* handleUpdateLayer call it ends with
WithinCommitBounds ==
    /\ opCount' + Cardinality({o \in pendingOps' : o.kind = "commit"}) <= MaxCommitOps
    /\ edits' <= MaxAsyncEdits

NextAsyncCommit ==
    \/ CreateNewProject /\ WithinCommitBounds
    \/ \E img \in {i \in ImportedImages : i.w = i.h} :
           HandleImportImage(img) /\ WithinCommitBounds
    \/ SelectionCommitCalled /\ WithinCommitBounds
    \/ \E o \in pendingOps : CommitBaseLoaded(o) /\ WithinCommitBounds
    \/ \E o \in pendingOps : CommitSelectionLoaded(o) /\ WithinCommitBounds
    \/ \E o \in pendingOps : CommitDecodeFailed(o) /\ WithinCommitBounds
    \/ \E o \in pendingOps : UpdateLayerResolved(o) /\ WithinCommitBounds
    \/ \E sel \in CreatedSelections : handleSelectionCreate(sel) /\ WithinCommitBounds

SpecAsyncCommit == Init /\ [][NextAsyncCommit]_vars

\* every image that is decoding fires load or error, and every composite resolves
SpecAsyncCommitFair ==
    /\ SpecAsyncCommit
    /\ WF_vars(CommitImageSettles /\ WithinCommitBounds)
    /\ WF_vars(\E o \in pendingOps : UpdateLayerResolved(o) /\ WithinCommitBounds)

\* C34: when a commit completes after a newer selection was created, the newer
\* selection is still floating, unchanged
C34_LateCommitKeepsNewerSelection ==
    [][\A o \in pendingOps :
          (/\ CommitSelectionLoaded(o)
           /\ ~IsNull(selection)
           /\ selection # o.closure.selection)
          => selection' = selection]_vars

\* a commit is suspended
CommitPending == \E o \in pendingOps : o.kind = "commit"

\* C36: every commit invoked with a floating selection eventually completes,
\* whether the decode of the base layer's bitmap and of the selection's bitmap
\* succeeds or fails
C36_CommitCompletes == CommitPending ~> ~CommitPending

====
